---------------------------- MODULE Spec2Model ----------------------------
(***************************************************************************)
(* A model of the Google Maps scraper: the retry utility, the              *)
(* deduplicator, and the run (main -> runScraper -> scrapeOnePlace ->      *)
(* upsertStays).                                                           *)
(*                                                                         *)
(* JavaScript strings are sequences of one-character strings, so that      *)
(* split('?'), toLowerCase() and template concatenation are computed.      *)
(* null/undefined is the sentinel Null, which is no string of the model.   *)
(***************************************************************************)
EXTENDS Integers, Sequences, FiniteSets, TLC

VARIABLES
    \* ---- retry(fn, opts): src/src/utils/retry.js
    rOpts,      \* [maxAttempts, initialMs, maxMs, shouldRetry]
    rState,     \* "idle" | "loop" | "wait" | "returned" | "threw"
    rAttempt,   \* the loop variable `attempt`
    rLastErr,   \* `lastErr` ("undefined" until a call fails)
    rOutcome,   \* the value returned or the error thrown by retry
    rCalls,     \* history: the outcome of every invocation of fn, in order
    rWaits,     \* history: the duration of every delayMs(wait), in order
    rCaller,    \* who awaits this retry: "test" | "search" | "item"
    \* ---- dedupeStays(list): src/src/scraper/scraper.js
    dIn,        \* the input list
    dOut,       \* the returned list
    dDone,      \* whether dedupeStays has been applied
    \* ---- main / runScraper / scrapeOnePlace / upsertStays
    pc,         \* position of the single flow of control
    dbUrl,      \* whether DATABASE_URL is set in the environment
    site,       \* what each place page shows: URL -> page content
    launched,   \* chromium.launch() has produced a browser
    closeCount, \* number of browser.close() calls
    qi,         \* index into SEARCH_QUERIES
    urls,       \* getPlaceUrls' result for the current query
    ui,         \* the item loop's index (1-based)
    seenUrls,   \* the set seenUrls
    allStays,   \* the list allStays
    pending,    \* what the finally block ends with: "none" | "return" | "throw"
    result,     \* runScraper's return value (<<>> until it returns)
    table,      \* the stays table: the rows inserted, in order
    exitCode,   \* -1 while running, else the process's exit status
    runState,   \* runScraper: "notCalled" | "running" | "returned" | "threw"
    upsertState,\* upsertStays: "notCalled" | "returned" | "threw"
    failCause,  \* history: what threw out of the top-level flow
    itemLog,    \* history: each scrapeOnePlace call, [url, outcome]
    firstQuery, \* history: url -> index of the first query that listed it, or 0
    rested,     \* history: a delay has completed since the last page.goto
    \* ---- scrollFeedUntilDone(page), then getPlaceUrls(page)
    sVariant,   \* "js" (scraper.js) | "ts" (the improved scraper.ts)
    sFeed,      \* div[role="feed"]: "visible" | "hidden" | "absent"
    sState,     \* "idle" | "loop" | "pause" | "returned" | "threw" | "collected"
    sI,         \* the loop variable i
    sLastCount, \* `lastCount`
    sStable,    \* `stableCount`
    sCount,     \* the count taken last (0 before the first)
    sTaken,     \* history: how many counts were taken
    sScrolls,   \* history: how many feed.evaluate calls resolved
    sRun,       \* history: how many counts in a row repeated their predecessor
    sFirst,     \* history: the counts taken, while they are at most HistoryLen
    sEndSeen,   \* history: the end-of-results text was visible at the last look
    sUrls,      \* what getPlaceUrls returned after the scroll
    \* ---- getPlaceUrls on any list of links
    lIn,        \* the href of each link of the feed, in document order
    lOut,       \* the returned list
    lDone,      \* whether getPlaceUrls has been applied
    \* ---- upsertStays(rows) and the stays table
    uDbUrl,     \* whether DATABASE_URL is set
    uTable,     \* the stays table: its rows, in insertion order
    uState,     \* "idle" | "loop" | "returned" | "threw"
    uRows,      \* the argument `rows` of the current call
    uI,         \* the loop variable i (0-based)
    uProcessed, \* the returned `processed` (-1 until the call returns)
    uBatches,   \* history: the batches of the current call, in issue order
    uCalls,     \* history: how many calls were made
    uTableAtCall, \* history: the table when the current call started
    uRerun,     \* history: the current call repeats the rows of a returned one
    \* ---- parseDetailPanel(page, url) and extractRatingAndReviews(page)
    pFn,        \* which of the two functions is called
    pVariant,   \* "ts" (parser.ts) | "js" (parser.js)
    pDetail,    \* what the probes of parseDetailPanel meet on the page
    pRatingPage,\* what the probes of extractRatingAndReviews meet
    pState,     \* position in the function, "returned" or "escaped"
    pOut,       \* the local variables that make up the returned object
    pTried,     \* history: the strategies attempted
    pThrew,     \* history: the fields during whose extraction a read rejected
    \* ---- delay(minMs, maxMs)
    dlMin,      \* the argument minMs
    dlMax,      \* the argument maxMs
    dlState,    \* "idle" | "called" | "sleeping" | "resolved"
    dlMs,       \* the local `ms`
    dlSlept,    \* how long the timer waits
    \* ---- createRateLimiter(maxPerWindow, windowMs) and its acquire()
    rlMaxPerWindow, \* the argument maxPerWindow
    rlWindowMs,  \* the argument windowMs
    rlTimestamps,\* `timestamps`, each entry held as its age Date.now() - timestamp
    rlState,     \* caller -> "idle" | "waiting" | "granted"
    rlTimer,     \* caller -> ms left on the timer its acquire() awaits
    rlGrants,    \* history: the ages of the grants made in the last windowMs ms
    rlCalls,     \* history: how many acquire() calls the callers made
    rlWaited     \* history: caller -> its current acquire() had to wait

retryVars == <<rOpts, rState, rAttempt, rLastErr, rOutcome, rCalls, rWaits, rCaller>>
dedupeVars == <<dIn, dOut, dDone>>
runVars == <<pc, dbUrl, site, launched, closeCount, qi, urls, ui, seenUrls,
             allStays, pending, result, table, exitCode, runState, upsertState,
             failCause, itemLog, firstQuery>>
scrollVars == <<sVariant, sFeed, sState, sI, sLastCount, sStable, sCount, sTaken,
                sScrolls, sRun, sFirst, sEndSeen, sUrls>>
linkVars == <<lIn, lOut, lDone>>
upsertVars == <<uDbUrl, uTable, uState, uRows, uI, uProcessed, uBatches, uCalls,
                uTableAtCall, uRerun>>
\* The utilities that are exercised on their own.
parseVars == <<pFn, pVariant, pDetail, pRatingPage, pState, pOut, pTried, pThrew>>
delayVars == <<dlMin, dlMax, dlState, dlMs, dlSlept>>
limiterVars == <<rlMaxPerWindow, rlWindowMs, rlTimestamps, rlState, rlTimer, rlGrants,
                 rlCalls, rlWaited>>
toolVars == <<dedupeVars, scrollVars, linkVars, upsertVars, parseVars, delayVars,
              limiterVars>>
\* What a step of the run that neither navigates nor pauses leaves alone.
utilVars == <<toolVars, rested>>
vars == <<retryVars, runVars, utilVars>>
\* What the steps of one utility leave alone.
notDedupe == <<retryVars, runVars, rested, scrollVars, linkVars, upsertVars, parseVars,
             delayVars, limiterVars>>
notScroll == <<retryVars, runVars, rested, dedupeVars, linkVars, upsertVars, parseVars,
             delayVars, limiterVars>>
notLinks == <<retryVars, runVars, rested, dedupeVars, scrollVars, upsertVars, parseVars,
            delayVars, limiterVars>>
notUpsert == <<retryVars, runVars, rested, dedupeVars, scrollVars, linkVars, parseVars,
             delayVars, limiterVars>>
notDelay == <<retryVars, runVars, rested, dedupeVars, scrollVars, linkVars, upsertVars,
               parseVars, limiterVars>>
notLimiter == <<retryVars, runVars, rested, dedupeVars, scrollVars, linkVars,
               upsertVars, parseVars, delayVars>>
notParse == <<retryVars, runVars, rested, dedupeVars, scrollVars, linkVars, upsertVars,
            delayVars, limiterVars>>

-----------------------------------------------------------------------------
(* Values *)

Null == <<"<null>">>
Undefined == <<"<undefined>">>

\* JavaScript truthiness of a string-or-null value.
Truthy(s) == s # Null /\ s # Undefined /\ s # <<>>

Min(a, b) == IF a <= b THEN a ELSE b

RECURSIVE Pow2(_)
Pow2(n) == IF n <= 0 THEN 1 ELSE 2 * Pow2(n - 1)

-----------------------------------------------------------------------------
(* retry(fn, opts): src/src/utils/retry.js                                   *)

\* Bound of the model: the largest maxAttempts a caller passes.
MaxAttemptsBound == 4

\* The defaults of the destructured options (retry.js line 16).
DefaultMaxAttempts == 3
DefaultInitialMs == 1000
DefaultMaxMs == 30000

\* The errors fn can throw, and the values it can return.
Errors == {"timeout", "net"}
Values == {"v1", "v2"}

\* shouldRetry = () => true
DefaultShouldRetry == [e \in Errors |-> TRUE]

\* The option objects the model passes to a directly called retry.
RetryOptions ==
    [maxAttempts : (-1) .. MaxAttemptsBound,
     initialMs   : {DefaultInitialMs, 3000},
     maxMs       : {2500, DefaultMaxMs},
     shouldRetry : [Errors -> BOOLEAN]]

\* What page.goto can throw (a navigation timeout); a direct caller's fn can
\* throw any error.
FnErrors(caller) == IF caller = "test" THEN Errors ELSE {"timeout"}
FnValues(caller) == IF caller = "test" THEN Values ELSE {"v1"}

Ok(v) == [kind |-> "ok", val |-> v]
Err(e) == [kind |-> "err", val |-> e]

\* A faulty variant of BackoffWait: the cap maxMs is forgotten.
BackoffWaitUncapped(initialMs, attempt, maxMs) == initialMs * Pow2(attempt - 1)

\* Math.min(initialMs * Math.pow(2, attempt - 1), maxMs)
BackoffWait(initialMs, attempt, maxMs) ==
    Min(initialMs * Pow2(attempt - 1), maxMs)

\* A faulty variant of GivesUp: the shouldRetry verdict is ignored.
GivesUpIgnoringPredicate(attempt, maxAttempts, verdict) == attempt = maxAttempts

\* A faulty variant of GivesUp: the last attempt is never made.
GivesUpEarly(attempt, maxAttempts, verdict) ==
    attempt >= maxAttempts - 1 \/ ~verdict

\* attempt === maxAttempts || !shouldRetry(err)
GivesUp(attempt, maxAttempts, verdict) == attempt = maxAttempts \/ ~verdict

\* The for loop's condition: attempt <= maxAttempts
LoopGuard(attempt, maxAttempts) == attempt <= maxAttempts

\* The state retry starts in: attempt = 1, lastErr undefined.
RetryStart(opts, caller) ==
    /\ rOpts' = opts
    /\ rState' = "loop"
    /\ rAttempt' = 1
    /\ rLastErr' = "undefined"
    /\ rOutcome' = Err("undefined")
    /\ rCalls' = <<>>
    /\ rWaits' = <<>>
    /\ rCaller' = caller

\* A faulty variant of AfterDelay: the pause is not taken.
AfterDelayForgotten(r) == r

\* The value of `rested` once an awaited delay(min, max) or delayMs(wait) has
\* resolved.
AfterDelay(r) == TRUE

RetryIdle ==
    /\ rOpts = [maxAttempts |-> DefaultMaxAttempts, initialMs |-> DefaultInitialMs,
                maxMs |-> DefaultMaxMs, shouldRetry |-> DefaultShouldRetry]
    /\ rState = "idle"
    /\ rAttempt = 1
    /\ rLastErr = "undefined"
    /\ rOutcome = Err("undefined")
    /\ rCalls = <<>>
    /\ rWaits = <<>>
    /\ rCaller = "none"

\* One pass of the loop body in which fn() resolves: return await fn().
RetryCallReturns ==
    /\ rState = "loop"
    /\ LoopGuard(rAttempt, rOpts.maxAttempts)
    /\ \E v \in FnValues(rCaller) :
         /\ rCalls' = Append(rCalls, Ok(v))
         /\ rOutcome' = Ok(v)
    /\ rState' = "returned"
    /\ rested' = FALSE
    /\ UNCHANGED <<rOpts, rAttempt, rLastErr, rWaits, rCaller>>
    /\ UNCHANGED <<toolVars, runVars>>

\* One pass of the loop body in which fn() rejects: the catch block, up to the
\* throw or to the start of delayMs(wait).
RetryCallThrows ==
    /\ rState = "loop"
    /\ LoopGuard(rAttempt, rOpts.maxAttempts)
    /\ \E e \in FnErrors(rCaller) :
         /\ rCalls' = Append(rCalls, Err(e))
         /\ rLastErr' = e
         /\ IF GivesUp(rAttempt, rOpts.maxAttempts, rOpts.shouldRetry[e])
            THEN /\ rState' = "threw"
                 /\ rOutcome' = Err(e)
                 /\ rWaits' = rWaits
            ELSE /\ rState' = "wait"
                 /\ rOutcome' = rOutcome
                 /\ rWaits' = Append(rWaits,
                        BackoffWait(rOpts.initialMs, rAttempt, rOpts.maxMs))
    /\ rested' = FALSE
    /\ UNCHANGED <<rOpts, rAttempt, rCaller>>
    /\ UNCHANGED <<toolVars, runVars>>

\* delayMs(wait) resolves: attempt++ and back to the loop condition.
RetryWaitDone ==
    /\ rState = "wait"
    /\ rState' = "loop"
    /\ rAttempt' = rAttempt + 1
    /\ rested' = AfterDelay(rested)
    /\ UNCHANGED <<rOpts, rLastErr, rOutcome, rCalls, rWaits, rCaller>>
    /\ UNCHANGED <<toolVars, runVars>>

\* The loop condition fails: throw lastErr (line 29).
RetryLoopExit ==
    /\ rState = "loop"
    /\ ~LoopGuard(rAttempt, rOpts.maxAttempts)
    /\ rState' = "threw"
    /\ rOutcome' = Err(rLastErr)
    /\ UNCHANGED <<rOpts, rAttempt, rLastErr, rCalls, rWaits, rCaller>>
    /\ UNCHANGED <<toolVars, runVars, rested>>

-----------------------------------------------------------------------------
(* Strings                                                                   *)

UpperCaseLetters ==
    <<"A", "B", "C", "D", "E", "F", "G", "H", "I", "J", "K", "L", "M",
      "N", "O", "P", "Q", "R", "S", "T", "U", "V", "W", "X", "Y", "Z">>

LowerCaseLetters ==
    <<"a", "b", "c", "d", "e", "f", "g", "h", "i", "j", "k", "l", "m",
      "n", "o", "p", "q", "r", "s", "t", "u", "v", "w", "x", "y", "z">>

\* String.prototype.toLowerCase on one character: a letter A-Z becomes a-z,
\* every other character of the model's strings (lower-case letters, digits,
\* punctuation) stays as it is.
LowerChar(c) ==
    IF \E i \in 1 .. Len(UpperCaseLetters) : UpperCaseLetters[i] = c
    THEN LowerCaseLetters[CHOOSE i \in 1 .. Len(UpperCaseLetters) :
                             UpperCaseLetters[i] = c]
    ELSE c

\* s.toLowerCase()
ToLowerCase(s) == [i \in 1 .. Len(s) |-> LowerChar(s[i])]

\* s.split('?')[0]: the part of s before its first '?', all of s without one.
SplitQuery(s) ==
    LET qs == {i \in 1 .. Len(s) : s[i] = "?"}
    IN  IF qs = {} THEN s
        ELSE SubSeq(s, 1, (CHOOSE i \in qs : \A j \in qs : i <= j) - 1)

\* s || '': null and undefined become the empty string.
OrEmpty(s) == IF Truthy(s) THEN s ELSE <<>>

-----------------------------------------------------------------------------
(* dedupeStays(list): src/src/scraper/scraper.js lines 117-130               *)

\* Bound of the model: the longest list handed to a directly called dedupeStays.
MaxList == 4

\* A null entry of the list (the parameter is (Place | null)[]).
NullStay == [nil |-> TRUE]

Stay(url, name, address) ==
    [googleMapsUrl |-> url, name |-> name, address |-> address,
     category |-> "hotel", phone |-> Null, rating |-> Null]

\* The records the model builds input lists from: the four of the
\* specification's example, a third record of canonical URL A under another
\* name, a null entry, a record without URL, and two records that differ in
\* name and in address.
ExA1 == Stay(<<"A", "?", "x", "=", "1">>, <<"N", "1">>, Null)
ExA2 == Stay(<<"A", "?", "x", "=", "2">>, <<"N", "1">>, Null)
ExB == Stay(<<"B">>, <<"n", "1">>, <<"a", "d", "d", "r">>)
ExC == Stay(<<"C">>, <<"N", "1">>, <<"A", "D", "D", "R">>)
ExA3 == Stay(<<"A">>, <<"M">>, Null)
NoUrl == Stay(Null, <<"N", "1">>, <<"a", "d", "d", "r">>)
PipeD == Stay(<<"D">>, <<"n", "|">>, <<>>)
PipeE == Stay(<<"E">>, <<"n">>, <<"|">>)
StayPool == {ExA1, ExA2, ExA3, ExB, ExC, NullStay, NoUrl, PipeD, PipeE}

RECURSIVE SeqsUpTo(_, _)
SeqsUpTo(S, n) ==
    IF n = 0 THEN {<<>>}
    ELSE LET shorter == SeqsUpTo(S, n - 1)
         IN  shorter \cup {Append(q, x) : q \in {r \in shorter : Len(r) = n - 1}, x \in S}

\* !s?.googleMapsUrl
HasNoUrl(s) == IF s = NullStay THEN TRUE ELSE ~Truthy(s.googleMapsUrl)

\* A faulty variant of UrlKey: the query string is kept in the key.
UrlKeyRaw(s) == s.googleMapsUrl

\* const key = s.googleMapsUrl.split('?')[0]
UrlKey(s) == SplitQuery(s.googleMapsUrl)

\* A faulty variant of NameAddrKey: the key is case-sensitive.
NameAddrKeyCased(s) == OrEmpty(s.name) \o <<"|">> \o OrEmpty(s.address)

\* `${(s.name || '').toLowerCase()}|${(s.address || '').toLowerCase()}`
NameAddrKey(s) ==
    ToLowerCase(OrEmpty(s.name)) \o <<"|">> \o ToLowerCase(OrEmpty(s.address))

\* The first loop: byUrl.values() after it, in insertion order.
ByUrl(list) ==
    LET F[n \in 0 .. Len(list)] ==
          IF n = 0 THEN <<>>
          ELSE LET s == list[n]
                   kept == F[n - 1]
               IN  IF HasNoUrl(s) THEN kept
                   ELSE IF \E j \in 1 .. Len(kept) : UrlKey(kept[j]) = UrlKey(s)
                        THEN kept
                        ELSE Append(kept, s)
    IN  F[Len(list)]

\* A faulty variant of ByNameAddr: a later record replaces the one kept
\* (byNameAddr.set without the has() test).
ByNameAddrLastWins(list) ==
    LET F[n \in 0 .. Len(list)] ==
          IF n = 0 THEN <<>>
          ELSE LET s == list[n]
                   kept == F[n - 1]
               IN  IF \E j \in 1 .. Len(kept) : NameAddrKey(kept[j]) = NameAddrKey(s)
                   THEN [j \in 1 .. Len(kept) |->
                           IF NameAddrKey(kept[j]) = NameAddrKey(s) THEN s ELSE kept[j]]
                   ELSE Append(kept, s)
    IN  F[Len(list)]

\* The second loop: byNameAddr.values() after it, in insertion order.
ByNameAddr(list) ==
    LET F[n \in 0 .. Len(list)] ==
          IF n = 0 THEN <<>>
          ELSE LET s == list[n]
                   kept == F[n - 1]
               IN  IF \E j \in 1 .. Len(kept) : NameAddrKey(kept[j]) = NameAddrKey(s)
                   THEN kept
                   ELSE Append(kept, s)
    IN  F[Len(list)]

\* A faulty variant of dedupeStays: the list is returned as it is.
dedupeStaysKeepsAll(list) == list

dedupeStays(list) == ByNameAddr(ByUrl(list))

DedupeIdle ==
    /\ dIn = <<>>
    /\ dOut = <<>>
    /\ dDone = FALSE

\* A caller applies dedupeStays to a list.
DedupeApply ==
    /\ ~dDone
    /\ dOut' = dedupeStays(dIn)
    /\ dDone' = TRUE
    /\ UNCHANGED <<dIn, notDedupe>>

-----------------------------------------------------------------------------
(* The run: src/index.js (main) and src/src/scraper/scraper.js               *)

\* SEARCH_QUERIES (scraper.js lines 12-16): the category of each query.
SearchQueries == <<"resort", "homestay", "hotel">>

\* The canonical place URLs the feeds can show.
PlaceUrls == {<<"A">>, <<"B">>}

\* What getPlaceUrls can return: any list of these URLs without duplicates
\* (its result comes out of a Set).
UrlLists ==
    {q \in SeqsUpTo(PlaceUrls, Cardinality(PlaceUrls)) :
        \A a, b \in 1 .. Len(q) : a # b => q[a] # q[b]}

\* What a place page shows.  name: the trimmed text of the first h1, Null when
\* reading it fails.  address: parseDetailPanel's address.  stars: the
\* [aria-label*="stars"] element: "absent" (getAttribute rejects when its
\* timeout expires), "nodigits" (a label without a number) or "full" (a label
\* such as "4.5 stars", on a page that also shows a phone number).
PageContents ==
    [name : {Null, <<"N">>}, address : {Null, <<"A">>},
     stars : {"absent", "nodigits", "full"}]

\* scraper.js line 85: parseFloat(label match || '') ?? null
RatingOf(page) == IF page.stars = "full" THEN <<"4.5">> ELSE <<"NaN">>

\* parseDetailPanel's phone.
PhoneOf(page) == IF page.stars = "full" THEN <<"P">> ELSE Null

\* The options of the two navigations (scraper.js lines 152 and 79); maxMs and
\* shouldRetry take their defaults.
SearchRetryOpts ==
    [maxAttempts |-> 3, initialMs |-> 3000, maxMs |-> DefaultMaxMs,
     shouldRetry |-> DefaultShouldRetry]
ItemRetryOpts ==
    [maxAttempts |-> 2, initialMs |-> 2000, maxMs |-> DefaultMaxMs,
     shouldRetry |-> DefaultShouldRetry]

\* A faulty variant of ShouldSkip: the test is missing.
ShouldSkipNever(name, address) == FALSE

\* if (!name && !details.address) return null
ShouldSkip(name, address) == ~Truthy(name) /\ ~Truthy(address)

\* A faulty variant of CatchesItemError: the catch block rethrows.
RethrowsItemError == FALSE

\* scrapeOnePlace's body is one try block whose catch returns null.
CatchesItemError == TRUE

\* A faulty variant of GetDbThrows: the connection string is not checked.
GetDbNeverThrows(urlSet) == FALSE

\* getDb: if (!url) throw new Error('DATABASE_URL is required')
GetDbThrows(urlSet) == ~urlSet

\* The object scrapeOnePlace returns (lines 93-105).
PlaceRecord(url, category, page) ==
    [googleMapsUrl |-> url,
     name |-> IF Truthy(page.name) THEN page.name
              ELSE <<"U", "n", "k", "n", "o", "w", "n">>,
     address |-> page.address,
     category |-> category,
     phone |-> PhoneOf(page),
     rating |-> RatingOf(page),
     totalReviews |-> Null]    \* cardInfo = {}: cardInfo.totalReviews ?? null

\* A faulty variant of InsertIgnore: on a conflict the new row replaces the
\* old one.
InsertOverwrite(tbl, rows) ==
    LET urlOf(r) == r.googleMapsUrl
        fresh == {k \in 1 .. Len(rows) :
                    /\ \A j \in 1 .. Len(tbl) : urlOf(tbl[j]) # urlOf(rows[k])
                    /\ \A m \in 1 .. k - 1 : urlOf(rows[m]) # urlOf(rows[k])}
        nth(i) == CHOOSE k \in fresh : Cardinality({m \in fresh : m <= k}) = i
        t == tbl \o [i \in 1 .. Cardinality(fresh) |-> rows[nth(i)]]
        last(u) == CHOOSE k \in 1 .. Len(rows) :
                      /\ urlOf(rows[k]) = u
                      /\ \A m \in k + 1 .. Len(rows) : urlOf(rows[m]) # u
    IN  [j \in 1 .. Len(t) |->
            IF \E k \in 1 .. Len(rows) : urlOf(rows[k]) = urlOf(t[j])
            THEN rows[last(urlOf(t[j]))]
            ELSE t[j]]

\* insert(...).values(batch).onConflictDoNothing({target: googleMapsUrl}): the
\* rows are added in order, and a row whose URL is already there (in the
\* table, or earlier in the same statement) is skipped.
InsertIgnore(tbl, rows) ==
    LET urlOf(r) == r.googleMapsUrl
        fresh == {k \in 1 .. Len(rows) :
                    /\ \A j \in 1 .. Len(tbl) : urlOf(tbl[j]) # urlOf(rows[k])
                    /\ \A m \in 1 .. k - 1 : urlOf(rows[m]) # urlOf(rows[k])}
        nth(i) == CHOOSE k \in fresh : Cardinality({m \in fresh : m <= k}) = i
    IN  tbl \o [i \in 1 .. Cardinality(fresh) |-> rows[nth(i)]]

RunIdle ==
    /\ pc = "off"
    /\ dbUrl = TRUE
    /\ site = [u \in PlaceUrls |-> [name |-> Null, address |-> Null, stars |-> "absent"]]
    /\ launched = FALSE
    /\ closeCount = 0
    /\ qi = 1
    /\ urls = <<>>
    /\ ui = 1
    /\ seenUrls = {}
    /\ allStays = <<>>
    /\ pending = "none"
    /\ result = <<>>
    /\ table = <<>>
    /\ exitCode = -1
    /\ runState = "notCalled"
    /\ upsertState = "notCalled"
    /\ failCause = "none"
    /\ itemLog = <<>>
    /\ firstQuery = [u \in PlaceUrls |-> 0]

\* main's catch block: log and process.exit(1).
Fatal(cause) ==
    /\ pc' = "exited"
    /\ exitCode' = 1
    /\ failCause' = cause

\* An exception inside runScraper's try block: control goes to finally.
ThrowInTry(cause) ==
    /\ pc' = "finally"
    /\ pending' = "throw"
    /\ failCause' = cause

\* main calls runScraper, which awaits launchBrowser(opts): chromium.launch,
\* browser.newContext, context.addInitScript.  None is guarded by a try.
LaunchBrowser ==
    /\ pc = "main"
    /\ \E outcome \in {"launchThrows", "contextThrows", "ok"} :
         /\ launched' = (outcome # "launchThrows")
         /\ IF outcome = "ok"
            THEN /\ pc' = "newPage"
                 /\ runState' = "running"
                 /\ UNCHANGED <<exitCode, failCause>>
            ELSE /\ runState' = "threw"
                 /\ Fatal(IF outcome = "launchThrows" THEN "launch" ELSE "context")
    /\ UNCHANGED <<firstQuery, dbUrl, site, closeCount, qi, urls, ui, seenUrls, allStays,
                   pending, result, table, upsertState, itemLog>>
    /\ UNCHANGED <<retryVars, utilVars>>

\* const page = await context.newPage(), before the try block.
NewPage ==
    /\ pc = "newPage"
    /\ \E ok \in BOOLEAN :
         IF ok
         THEN /\ pc' = "queryLoop"
              /\ UNCHANGED <<exitCode, failCause, runState>>
         ELSE /\ runState' = "threw"
              /\ Fatal("newPage")
    /\ UNCHANGED <<firstQuery, dbUrl, site, launched, closeCount, qi, urls, ui, seenUrls,
                   allStays, pending, result, table, upsertState, itemLog>>
    /\ UNCHANGED <<retryVars, utilVars>>

\* for (const {q, category} of SEARCH_QUERIES): the next query's navigation
\* starts, or the loop is over and control goes to finally.
QueryLoop ==
    /\ pc = "queryLoop"
    /\ IF qi <= Len(SearchQueries)
       THEN /\ pc' = "searchNav"
            /\ RetryStart(SearchRetryOpts, "search")
            /\ UNCHANGED pending
       ELSE /\ pc' = "finally"
            /\ pending' = "return"
            /\ UNCHANGED retryVars
    /\ UNCHANGED <<firstQuery, dbUrl, site, launched, closeCount, qi, urls, ui, seenUrls,
                   allStays, result, table, exitCode, runState, upsertState,
                   failCause, itemLog>>
    /\ UNCHANGED utilVars

\* await retry(page.goto(searchUrl)) is over: it returned, or it threw and the
\* error leaves the try block.
SearchNavEnds ==
    /\ pc = "searchNav"
    /\ rState \in {"returned", "threw"}
    /\ IF rState = "returned"
       THEN /\ pc' = "searchDelay"
            /\ UNCHANGED <<pending, failCause>>
       ELSE ThrowInTry("searchNav")
    /\ UNCHANGED <<firstQuery, dbUrl, site, launched, closeCount, qi, urls, ui, seenUrls,
                   allStays, result, table, exitCode, runState, upsertState, itemLog>>
    /\ UNCHANGED <<retryVars, utilVars>>

\* await delay(DELAY_MIN, DELAY_MAX) after the search navigation.
SearchDelay ==
    /\ pc = "searchDelay"
    /\ pc' = "scroll"
    /\ UNCHANGED <<firstQuery, dbUrl, site, launched, closeCount, qi, urls, ui, seenUrls,
                   allStays, pending, result, table, exitCode, runState,
                   upsertState, failCause, itemLog>>
    /\ rested' = AfterDelay(rested)
    /\ UNCHANGED <<retryVars, toolVars>>

\* await scrollFeedUntilDone(page): it returns, or feed.evaluate rejects.
ScrollFeed ==
    /\ pc = "scroll"
    /\ \E ok \in BOOLEAN :
         IF ok
         THEN /\ pc' = "collect"
              /\ UNCHANGED <<pending, failCause>>
         ELSE ThrowInTry("scroll")
    /\ UNCHANGED <<firstQuery, dbUrl, site, launched, closeCount, qi, urls, ui, seenUrls,
                   allStays, result, table, exitCode, runState, upsertState, itemLog>>
    /\ UNCHANGED <<retryVars, utilVars>>

Listed(list, u) == \E k \in 1 .. Len(list) : list[k] = u

\* const urls = await getPlaceUrls(page): a list, or a.getAttribute rejects.
CollectUrls ==
    /\ pc = "collect"
    /\ \/ /\ \E list \in UrlLists :
                /\ urls' = list
                /\ firstQuery' = [u \in PlaceUrls |->
                                    IF firstQuery[u] = 0 /\ Listed(list, u)
                                    THEN qi ELSE firstQuery[u]]
          /\ ui' = 1
          /\ pc' = "itemLoop"
          /\ UNCHANGED <<pending, failCause>>
       \/ /\ ThrowInTry("collect")
          /\ UNCHANGED <<urls, ui, firstQuery>>
    /\ UNCHANGED <<dbUrl, site, launched, closeCount, qi, seenUrls, allStays,
                   result, table, exitCode, runState, upsertState, itemLog>>
    /\ UNCHANGED <<retryVars, utilVars>>

\* What scrapeOnePlace does after a successful navigation and its delay
\* (lines 83-105): "threw" when reading the stars label rejects, "skipped"
\* when neither name nor address was recovered, else "kept".
ExtractOutcome(page) ==
    IF page.stars = "absent" THEN "threw"
    ELSE IF ShouldSkip(page.name, page.address) THEN "skipped"
    ELSE "kept"

\* A faulty variant of AlreadySeen: the set of seen URLs is not consulted.
AlreadySeenNever(seen, url) == FALSE

\* if (seenUrls.has(url)) continue
AlreadySeen(seen, url) == url \in seen

\* The head of the item loop: the loop is over (next query), the URL was seen
\* before (continue), or scrapeOnePlace is called and starts its navigation.
ItemLoop ==
    /\ pc = "itemLoop"
    /\ IF ui > Len(urls)
       THEN /\ qi' = qi + 1
            /\ pc' = "queryLoop"
            /\ UNCHANGED <<ui, seenUrls, retryVars>>
       ELSE IF AlreadySeen(seenUrls, urls[ui])
       THEN /\ ui' = ui + 1
            /\ UNCHANGED <<pc, qi, seenUrls, retryVars>>
       ELSE /\ seenUrls' = seenUrls \cup {urls[ui]}
            /\ pc' = "itemNav"
            /\ RetryStart(ItemRetryOpts, "item")
            /\ UNCHANGED <<qi, ui>>
    /\ UNCHANGED <<firstQuery, dbUrl, site, launched, closeCount, urls, allStays, pending,
                   result, table, exitCode, runState, upsertState, failCause, itemLog>>
    /\ UNCHANGED utilVars

\* scrapeOnePlace: await retry(page.goto(placeUrl)) is over.  When it threw,
\* the catch block logs and returns null, and runScraper pushes nothing.
ItemNavEnds ==
    /\ pc = "itemNav"
    /\ rState \in {"returned", "threw"}
    /\ IF rState = "returned"
       THEN /\ pc' = "itemNavDelay"
            /\ UNCHANGED <<pending, failCause, itemLog>>
       ELSE IF CatchesItemError
       THEN /\ pc' = "itemDelay"
            /\ itemLog' = Append(itemLog, [url |-> urls[ui], outcome |-> "navFailed"])
            /\ UNCHANGED <<pending, failCause>>
       ELSE /\ ThrowInTry("item")
            /\ UNCHANGED itemLog
    /\ UNCHANGED <<firstQuery, dbUrl, site, launched, closeCount, qi, urls, ui, seenUrls,
                   allStays, result, table, exitCode, runState, upsertState>>
    /\ UNCHANGED <<retryVars, utilVars>>

\* scrapeOnePlace: await delay(DELAY_MIN, DELAY_MAX) after the navigation.
ItemNavDelay ==
    /\ pc = "itemNavDelay"
    /\ pc' = "extract"
    /\ UNCHANGED <<firstQuery, dbUrl, site, launched, closeCount, qi, urls, ui, seenUrls,
                   allStays, pending, result, table, exitCode, runState,
                   upsertState, failCause, itemLog>>
    /\ rested' = AfterDelay(rested)
    /\ UNCHANGED <<retryVars, toolVars>>

\* scrapeOnePlace from parseDetailPanel to its return, and runScraper's
\* `if (stay) allStays.push(stay)`.
Extract ==
    /\ pc = "extract"
    /\ LET url == urls[ui]
           page == site[url]
           outcome == ExtractOutcome(page)
       IN  IF outcome = "threw" /\ ~CatchesItemError
           THEN /\ ThrowInTry("item")
                /\ UNCHANGED <<allStays, itemLog>>
           ELSE /\ pc' = "itemDelay"
                /\ itemLog' = Append(itemLog, [url |-> url, outcome |-> outcome])
                /\ allStays' = IF outcome = "kept"
                               THEN Append(allStays,
                                        PlaceRecord(url, SearchQueries[qi], page))
                               ELSE allStays
                /\ UNCHANGED <<pending, failCause>>
    /\ UNCHANGED <<firstQuery, dbUrl, site, launched, closeCount, qi, urls, ui, seenUrls,
                   result, table, exitCode, runState, upsertState>>
    /\ UNCHANGED <<retryVars, utilVars>>

\* runScraper: await delay(DELAY_MIN, DELAY_MAX) after the item, then i++.
ItemDelay ==
    /\ pc = "itemDelay"
    /\ pc' = "itemLoop"
    /\ ui' = ui + 1
    /\ UNCHANGED <<firstQuery, dbUrl, site, launched, closeCount, qi, urls, seenUrls,
                   allStays, pending, result, table, exitCode, runState,
                   upsertState, failCause, itemLog>>
    /\ rested' = AfterDelay(rested)
    /\ UNCHANGED <<retryVars, toolVars>>

\* finally { await browser.close() }.  When close rejects, its error leaves
\* runScraper in place of a pending one and reaches main's catch block;
\* otherwise the pending error does, or runScraper returns
\* dedupeStays(allStays).
Finally ==
    /\ pc = "finally"
    /\ closeCount' = closeCount + 1
    /\ \E closeRejects \in BOOLEAN :
         IF closeRejects
         THEN /\ runState' = "threw"
              /\ Fatal("close")
              /\ UNCHANGED result
         ELSE IF pending = "throw"
         THEN /\ runState' = "threw"
              /\ pc' = "exited"
              /\ exitCode' = 1
              /\ UNCHANGED <<result, failCause>>
         ELSE /\ runState' = "returned"
              /\ result' = dedupeStays(allStays)
              /\ pc' = "saved"
              /\ UNCHANGED <<exitCode, failCause>>
    /\ UNCHANGED <<firstQuery, dbUrl, site, launched, qi, urls, ui, seenUrls,
                   allStays, pending, table, upsertState, itemLog>>
    /\ UNCHANGED <<retryVars, utilVars>>

\* main after runScraper returned: nothing to save (return), or
\* upsertStays(stays): getDb, the inserts, and the end of main.
SaveStays ==
    /\ pc = "saved"
    /\ pc' = "exited"
    /\ IF Len(result) = 0
       THEN /\ exitCode' = 0
            /\ UNCHANGED <<table, upsertState, failCause>>
       ELSE IF GetDbThrows(dbUrl)
       THEN /\ upsertState' = "threw"
            /\ exitCode' = 1
            /\ failCause' = "config"
            /\ UNCHANGED table
       ELSE \E dbOk \in BOOLEAN :
              IF dbOk
              THEN /\ table' = InsertIgnore(table, result)
                   /\ upsertState' = "returned"
                   /\ exitCode' = 0
                   /\ UNCHANGED failCause
              ELSE /\ upsertState' = "threw"
                   /\ exitCode' = 1
                   /\ failCause' = "db"
                   /\ UNCHANGED table
    /\ UNCHANGED <<firstQuery, dbUrl, site, launched, closeCount, qi, urls, ui,
                   seenUrls, allStays, pending, result, runState, itemLog>>
    /\ UNCHANGED <<retryVars, utilVars>>

-----------------------------------------------------------------------------
(* Scrolling the results feed and collecting its links:                      *)
(* scrollFeedUntilDone and getPlaceUrls, src/src/scraper/scraper.js lines    *)
(* 22-63 ("js") and the improved scraper.ts ("ts")                           *)

\* Bound of the model: how many of the first counts the history sFirst keeps.
HistoryLen == 5

\* Bound of the model: the longest list of links handed to a directly called
\* getPlaceUrls.
MaxLinks == 3

ScrollVariants == {"js", "ts"}

FeedStates == {"visible", "hidden", "absent"}

\* const maxStable
MaxStable(variant) == IF variant = "js" THEN 3 ELSE 5

\* The bound of the for loop.
MaxScrollAttempts(variant) == IF variant = "js" THEN 100 ELSE 150

\* cards.length, as the page can report it when `taken` counts were taken and
\* the last was `last`: nothing without a feed; else an empty feed, 5 or 9
\* cards, or one card more than ever before (a feed that has grown on every
\* iteration grows again).
CountsOnPage(feed, last, taken) ==
    IF feed = "absent" THEN {0}
    ELSE {0, 5, 9} \cup (IF last = taken THEN {taken + 1} ELSE {})

\* Whether the end-of-results text can be visible: only scraper.ts looks.
EndOfResults(variant) == IF variant = "ts" THEN BOOLEAN ELSE {FALSE}

\* A faulty variant of NextStable: a changed count does not reset stableCount.
NextStableNoReset(count, lastCount, stableCount) ==
    IF count = lastCount THEN stableCount + 1 ELSE stableCount

\* stableCount after the if/else on count === lastCount.
NextStable(count, lastCount, stableCount) ==
    IF count = lastCount THEN stableCount + 1 ELSE 0

\* A faulty variant of StableBreak: two unchanged counts are enough.
StableBreakAtTwo(count, lastCount, stable, variant) ==
    count = lastCount /\ stable >= 2

\* if (stableCount >= maxStable) break, inside the count === lastCount branch;
\* `stable` is stableCount after the increment.
StableBreak(count, lastCount, stable, variant) ==
    count = lastCount /\ stable >= MaxStable(variant)

\* feed.evaluate(...) waits for the element to be attached and rejects with a
\* TimeoutError when there is none; nothing catches it.
EvaluateRejects(feed) == feed = "absent"

\* 'https://www.google.com'
Origin == <<"h", "t", "t", "p", "s", ":", "/", "/", "w", "w", "w", ".",
            "g", "o", "o", "g", "l", "e", ".", "c", "o", "m">>

\* href.startsWith('http')
StartsWithHttp(s) == Len(s) >= 4 /\ SubSeq(s, 1, 4) = <<"h", "t", "t", "p">>

\* A faulty variant of FullUrl: a relative href is not made absolute.
FullUrlUnprefixed(href) == href

\* const full = href.startsWith('http') ? href : `https://www.google.com${href}`
FullUrl(href) == IF StartsWithHttp(href) THEN href ELSE Origin \o href

\* The Set `urls` after the loop of getPlaceUrls has gone through
\* links[lo .. hi], in insertion order: urls.add(full.split('?')[0]) for every
\* href that is not empty.  The range is halved rather than walked link by
\* link, which gives the same list: a URL of the second half is added unless
\* the first half added it.
RECURSIVE UrlsAdded(_, _, _)
UrlsAdded(links, lo, hi) ==
    IF lo > hi THEN <<>>
    ELSE IF lo = hi
    THEN IF Truthy(links[lo]) THEN <<SplitQuery(FullUrl(links[lo]))>> ELSE <<>>
    ELSE LET mid == (lo + hi) \div 2
             first == UrlsAdded(links, lo, mid)
             second == UrlsAdded(links, mid + 1, hi)
         IN  first \o SelectSeq(second,
                          LAMBDA u : \A i \in 1 .. Len(first) : first[i] # u)

\* getPlaceUrls on the hrefs of the links, in document order: the Set `urls`
\* keeps insertion order and [...urls] lists it.
getPlaceUrls(links) == UrlsAdded(links, 1, Len(links))

\* The links of a feed of n cards: the k-th card links to place k by a
\* relative href with a query string (the path /maps/place/<k> is shortened
\* to /<k>).
FeedLinks(n) == [k \in 1 .. n |-> <<"/", ToString(k), "?", "q">>]

ScrollIdle ==
    /\ sVariant = "js"
    /\ sFeed = "visible"
    /\ sState = "idle"
    /\ sI = 0
    /\ sLastCount = 0
    /\ sStable = 0
    /\ sCount = 0
    /\ sTaken = 0
    /\ sScrolls = 0
    /\ sRun = 0
    /\ sFirst = <<>>
    /\ sEndSeen = FALSE
    /\ sUrls = <<>>

\* One pass of the loop body from the count to the start of the delay:
\* the count, (ts) the look for the end-of-results text, the stability test,
\* lastCount = count, and feed.evaluate.
ScrollCount ==
    /\ sState = "loop"
    /\ sI < MaxScrollAttempts(sVariant)
    /\ \E count \in CountsOnPage(sFeed, sCount, sTaken), endOfResults \in EndOfResults(sVariant) :
         /\ sCount' = count
         /\ sTaken' = sTaken + 1
         /\ sRun' = IF count = sCount THEN sRun + 1 ELSE 0
         /\ sFirst' = IF sTaken < HistoryLen /\ Len(sFirst) = sTaken
                      THEN Append(sFirst, count) ELSE <<>>
         /\ sEndSeen' = endOfResults
         /\ IF endOfResults
            THEN /\ sState' = "returned"
                 /\ UNCHANGED <<sLastCount, sStable, sScrolls>>
            ELSE LET stable == NextStable(count, sLastCount, sStable)
                 IN  /\ sStable' = stable
                     /\ IF StableBreak(count, sLastCount, stable, sVariant)
                        THEN /\ sState' = "returned"
                             /\ UNCHANGED <<sLastCount, sScrolls>>
                        ELSE /\ sLastCount' = count
                             /\ IF EvaluateRejects(sFeed)
                                THEN /\ sState' = "threw"
                                     /\ UNCHANGED sScrolls
                                ELSE /\ sState' = "pause"
                                     /\ sScrolls' = sScrolls + 1
    /\ UNCHANGED <<sVariant, sFeed, sI, sUrls>>
    /\ UNCHANGED notScroll

\* await delay(...) at the end of the loop body resolves, then i++.
ScrollPause ==
    /\ sState = "pause"
    /\ sState' = "loop"
    /\ sI' = sI + 1
    /\ UNCHANGED <<sVariant, sFeed, sLastCount, sStable, sCount, sTaken, sScrolls,
                   sRun, sFirst, sEndSeen, sUrls>>
    /\ UNCHANGED notScroll

\* The loop condition i < cap fails.
ScrollCapReached ==
    /\ sState = "loop"
    /\ sI >= MaxScrollAttempts(sVariant)
    /\ sState' = "returned"
    /\ UNCHANGED <<sVariant, sFeed, sI, sLastCount, sStable, sCount, sTaken,
                   sScrolls, sRun, sFirst, sEndSeen, sUrls>>
    /\ UNCHANGED notScroll

\* runScraper's next statement, const urls = await getPlaceUrls(page), on a
\* feed that still shows the cards counted last.
ScrollCollect ==
    /\ sState = "returned"
    /\ sUrls' = getPlaceUrls(FeedLinks(sCount))
    /\ sState' = "collected"
    /\ UNCHANGED <<sVariant, sFeed, sI, sLastCount, sStable, sCount, sTaken,
                   sScrolls, sRun, sFirst, sEndSeen>>
    /\ UNCHANGED notScroll

\* The hrefs a link of the feed can carry: none, empty, relative or absolute,
\* with or without a query string (place paths are shortened to /A and /B).
HrefPool ==
    { Null,
      <<>>,
      <<"/", "A">>,
      <<"/", "A", "?", "q">>,
      Origin \o <<"/", "A">>,
      Origin \o <<"/", "B", "?", "q", "?", "r">>,
      <<"/", "B">> }

LinkIdle ==
    /\ lIn = <<>>
    /\ lOut = <<>>
    /\ lDone = FALSE

\* A caller applies getPlaceUrls to a feed with the links lIn.
LinksApply ==
    /\ ~lDone
    /\ lOut' = getPlaceUrls(lIn)
    /\ lDone' = TRUE
    /\ UNCHANGED <<lIn, notLinks>>

-----------------------------------------------------------------------------
(* upsertStays(rows) against the stays table: src/src/db/index.js            *)

\* Bound of the model: the longest list of rows handed to upsertStays.
MaxRows == 101

\* Bound of the model: how many times upsertStays is called on one table.
MaxCalls == 2

\* const BATCH_SIZE = 50
BATCH_SIZE == 50

\* The lengths of the lists tried: the short ones, the longest ones, and the
\* ones next to a multiple of the batch size.
RowCounts ==
    {n \in 0 .. MaxRows :
        \/ n <= 2
        \/ n >= MaxRows - 1
        \/ n % BATCH_SIZE \in {0, 1, BATCH_SIZE - 1}}

\* A list of n rows, reduced to the unique column and one column of data:
\* the k-th row has URL number k, or one of three URLs in turn when the list
\* repeats itself; `tag` tells the data of one scrape from another's.
RowsOf(n, repeating, tag) ==
    [k \in 1 .. n |->
        [googleMapsUrl |-> IF repeating THEN ((k - 1) % 3) + 1 ELSE k,
         name |-> 1000 * tag + k]]

UpsertInputs ==
    {RowsOf(n, repeating, tag) : n \in RowCounts, repeating \in BOOLEAN, tag \in 1 .. MaxCalls}

\* A faulty variant of Batch: the slice runs one row into the next batch.
BatchOverlapping(rows, i) == SubSeq(rows, i + 1, Min(i + BATCH_SIZE + 1, Len(rows)))

\* rows.slice(i, i + BATCH_SIZE), for the 0-based i of the loop.
Batch(rows, i) == SubSeq(rows, i + 1, Min(i + BATCH_SIZE, Len(rows)))

UpsertIdle ==
    /\ uDbUrl = TRUE
    /\ uTable = <<>>
    /\ uState = "idle"
    /\ uRows = <<>>
    /\ uI = 0
    /\ uProcessed = -1
    /\ uBatches = <<>>
    /\ uCalls = 0
    /\ uTableAtCall = <<>>
    /\ uRerun = FALSE

\* upsertStays(rows) is called: the empty list returns at once, getDb() may
\* throw, else the loop starts with i = 0.
UpsertCall ==
    /\ uState \in {"idle", "returned", "threw"}
    /\ uCalls < MaxCalls
    /\ \E rows \in UpsertInputs :
         /\ uRows' = rows
         /\ uRerun' = (uState = "returned" /\ rows = uRows)
         /\ IF Len(rows) = 0
            THEN uState' = "returned" /\ uProcessed' = 0
            ELSE IF GetDbThrows(uDbUrl)
            THEN uState' = "threw" /\ uProcessed' = -1
            ELSE uState' = "loop" /\ uProcessed' = -1
    /\ uI' = 0
    /\ uBatches' = <<>>
    /\ uCalls' = uCalls + 1
    /\ uTableAtCall' = uTable
    /\ UNCHANGED <<uDbUrl, uTable>>
    /\ UNCHANGED notUpsert

\* One pass of the loop: the insert of one batch resolves, or the database
\* rejects it and upsertStays throws.
UpsertBatch ==
    /\ uState = "loop"
    /\ uI < Len(uRows)
    /\ LET batch == Batch(uRows, uI)
       IN  /\ uBatches' = Append(uBatches, batch)
           /\ \E ok \in BOOLEAN :
                IF ok
                THEN /\ uTable' = InsertIgnore(uTable, batch)
                     /\ uI' = uI + BATCH_SIZE
                     /\ UNCHANGED uState
                ELSE /\ uState' = "threw"
                     /\ UNCHANGED <<uTable, uI>>
    /\ UNCHANGED <<uDbUrl, uRows, uProcessed, uCalls, uTableAtCall, uRerun>>
    /\ UNCHANGED notUpsert

\* The loop condition fails: return { processed: rows.length }.
UpsertReturn ==
    /\ uState = "loop"
    /\ uI >= Len(uRows)
    /\ uState' = "returned"
    /\ uProcessed' = Len(uRows)
    /\ UNCHANGED <<uDbUrl, uTable, uRows, uI, uBatches, uCalls, uTableAtCall, uRerun>>
    /\ UNCHANGED notUpsert

-----------------------------------------------------------------------------
(* Reading one place page: parseDetailPanel (parser.ts, and parser.js        *)
(* without the phone fallback) and extractRatingAndReviews (scraper.ts)      *)

ParseVariants == {"ts", "js"}

ParseFns == {"parseDetailPanel", "extractRatingAndReviews"}

\* What each probe of parseDetailPanel can meet on the page.  "invisible"
\* covers an element that is missing, hidden, or whose isVisible() fails;
\* "throws" is a getAttribute / textContent / all / evaluateAll that rejects
\* (a timeout, a detached element); "blank" is a label that is only the
\* words "Copy address", or a phone button whose text is only white space;
\* "empty" is a tel: link with nothing after the scheme; "nohref" is a link
\* without an href.
DetailPages ==
    [addrButton : {"invisible", "label", "blank", "throws"},
     addrPanel : {"text", "none"},
     telLink : {"invisible", "number", "empty", "throws"},
     phoneButton : {"invisible", "text", "blank", "throws"},
     webLink : {"invisible", "href", "nohref", "throws"},
     webScan : {"found", "none", "throws"},
     images : {"some", "none", "throws"},
     coords : BOOLEAN]

\* What each probe of extractRatingAndReviews can meet: "nomatch" is a label
\* that the regular expression does not match.
RatingPages ==
    [stars : {"invisible", "label", "nomatch", "throws"},
     starsText : {"text", "none"},
     reviewButton : {"invisible", "label", "nomatch", "throws"},
     reviewSpan : {"text", "none"},
     panelText : {"text", "none"}]

BlankDetailPage ==
    [addrButton |-> "invisible", addrPanel |-> "none", telLink |-> "invisible",
     phoneButton |-> "invisible", webLink |-> "invisible", webScan |-> "none",
     images |-> "none", coords |-> FALSE]

BlankRatingPage ==
    [stars |-> "invisible", starsText |-> "none", reviewButton |-> "invisible",
     reviewSpan |-> "none", panelText |-> "none"]

\* The outcome of one try block or strategy chain: the field's value, the
\* strategies that were attempted, and whether an exception left the chain.
Got(v, tried) == [value |-> v, tried |-> tried, threw |-> FALSE]

Threw(v, tried) == [value |-> v, tried |-> tried, threw |-> TRUE]

\* address.replace(/^Copy address\s*/i, '').trim() on a label given as its
\* words.
StripCopyAddress(label) ==
    IF label # <<>> /\ label[1] = "Copy address" THEN Tail(label) ELSE label

\* The statements inside the address try block (parser.ts lines 91-101).
AddressBlock(page) ==
    IF page.addrButton = "throws" THEN Threw(Null, {"addrButton"})
    ELSE LET label == IF page.addrButton = "label" THEN <<"Copy address", "12 Beach Rd">>
                      ELSE IF page.addrButton = "blank" THEN <<"Copy address">>
                      ELSE Null
             address == IF Truthy(label) THEN StripCopyAddress(label) ELSE label
         IN  IF Truthy(address) THEN Got(address, {"addrButton"})
             ELSE Got(IF page.addrPanel = "text" THEN <<"12 Beach Rd">> ELSE Null,
                      {"addrButton", "addrPanel"})

\* The statements inside the phone try block (parser.ts lines 104-121;
\* parser.js has no fallback).
PhoneBlock(page, variant) ==
    IF page.telLink = "throws" THEN Threw(Null, {"telLink"})
    ELSE LET \* href ? href.replace(/^tel:/, '').trim() : null
             phone == IF page.telLink = "number" THEN <<"0470 123">>
                      ELSE IF page.telLink = "empty" THEN <<>>
                      ELSE Null
         IN  IF Truthy(phone) \/ variant = "js" THEN Got(phone, {"telLink"})
             ELSE IF page.phoneButton = "throws"
             THEN Threw(phone, {"telLink", "phoneButton"})
             ELSE \* if (phoneText) phone = phoneText.trim()
                  Got(IF page.phoneButton = "text" THEN <<"0470 123">>
                      ELSE IF page.phoneButton = "blank" THEN <<>>
                      ELSE phone,
                      {"telLink", "phoneButton"})

\* The statements inside the website try block (parser.ts lines 124-143).
WebsiteBlock(page) ==
    IF page.webLink = "throws" THEN Threw(Null, {"webLink"})
    ELSE IF page.webLink = "href" THEN Got(<<"http://stay.example">>, {"webLink"})
    ELSE IF page.webScan = "throws" THEN Threw(Null, {"webLink", "webScan"})
    ELSE Got(IF page.webScan = "found" THEN <<"http://stay.example">> ELSE Null,
             {"webLink", "webScan"})

\* The statements inside the images try block (parser.ts lines 146-151):
\* evaluateAll hands back up to five sources.
ImagesBlock(page) ==
    IF page.images = "throws" THEN Threw(<<>>, {"images"})
    ELSE Got(IF page.images = "some" THEN <<"i1", "i2", "i3", "i4", "i5">> ELSE <<>>,
             {"images"})

\* A faulty variant of BlockCatches: the images block has no catch.
BlockCatchesButImages(field) == field # "imageUrls"

\* Each of the four blocks of parseDetailPanel is try { ... } catch {}, and
\* the body of extractRatingAndReviews is one try { ... } catch (err) { warn }.
BlockCatches(field) == TRUE

\* The rating part of extractRatingAndReviews' try block (scraper.ts lines
\* 112-136): the aria-label read is not guarded, the alternative is.
RatingChain(page) ==
    IF page.stars = "throws" THEN Threw(Null, {"stars"})
    ELSE IF page.stars = "label" THEN Got(<<"4.5">>, {"stars"})
    ELSE Got(IF page.starsText = "text" THEN <<"4.5">> ELSE Null,
             {"stars", "starsText"})

\* The review part of the same try block (scraper.ts lines 138-180).
ReviewChain(page) ==
    IF page.reviewButton = "throws" THEN Threw(Null, {"reviewButton"})
    ELSE IF page.reviewButton = "label" THEN Got(<<"120">>, {"reviewButton"})
    ELSE IF page.reviewSpan = "text" THEN Got(<<"120">>, {"reviewButton", "reviewSpan"})
    ELSE Got(IF page.panelText = "text" THEN <<"120">> ELSE Null,
             {"reviewButton", "reviewSpan", "panelText"})

ParseIdle ==
    /\ pFn = "parseDetailPanel"
    /\ pVariant = "ts"
    /\ pDetail = BlankDetailPage
    /\ pRatingPage = BlankRatingPage
    /\ pState = "idle"
    /\ pOut = [address |-> Null, phone |-> Null, website |-> Null,
               imageUrls |-> <<>>, latitude |-> Null, longitude |-> Null,
               rating |-> Null, totalReviews |-> Null]
    /\ pTried = {}
    /\ pThrew = {}

\* One try block of parseDetailPanel: its value goes to the local variable,
\* and an exception is swallowed by the block's catch or leaves the function.
ParseBlock(field, next, r) ==
    /\ pTried' = pTried \cup r.tried
    /\ pThrew' = IF r.threw THEN pThrew \cup {field} ELSE pThrew
    /\ pOut' = [pOut EXCEPT ![field] = r.value]
    /\ pState' = IF r.threw /\ ~BlockCatches(field) THEN "escaped" ELSE next
    /\ UNCHANGED <<pFn, pVariant, pDetail, pRatingPage>>
    /\ UNCHANGED notParse

ParseAddress ==
    /\ pState = "address"
    /\ ParseBlock("address", "phone", AddressBlock(pDetail))

ParsePhone ==
    /\ pState = "phone"
    /\ ParseBlock("phone", "website", PhoneBlock(pDetail, pVariant))

ParseWebsite ==
    /\ pState = "website"
    /\ ParseBlock("website", "imageUrls", WebsiteBlock(pDetail))

ParseImages ==
    /\ pState = "imageUrls"
    /\ ParseBlock("imageUrls", "coords", ImagesBlock(pDetail))

\* parseCoordsFromUrl(currentUrl || page.url()) and the return statement with
\* imageUrls.slice(0, 3).
ParseReturn ==
    /\ pState = "coords"
    /\ pOut' = [pOut EXCEPT
                  !.latitude = IF pDetail.coords THEN <<"8.73">> ELSE Null,
                  !.longitude = IF pDetail.coords THEN <<"76.71">> ELSE Null,
                  !.imageUrls = SubSeq(pOut.imageUrls, 1, Min(3, Len(pOut.imageUrls)))]
    /\ pState' = "returned"
    /\ UNCHANGED <<pFn, pVariant, pDetail, pRatingPage, pTried, pThrew>>
    /\ UNCHANGED notParse

\* extractRatingAndReviews up to the review strategies: a rejected read of
\* the stars label goes straight to the catch and the return.
ExtractRating ==
    /\ pState = "rating"
    /\ LET r == RatingChain(pRatingPage)
       IN  /\ pTried' = pTried \cup r.tried
           /\ pThrew' = IF r.threw THEN pThrew \cup {"rating"} ELSE pThrew
           /\ pOut' = [pOut EXCEPT !.rating = r.value]
           /\ pState' = IF ~r.threw THEN "reviews"
                        ELSE IF BlockCatches("rating") THEN "returned"
                        ELSE "escaped"
    /\ UNCHANGED <<pFn, pVariant, pDetail, pRatingPage>>
    /\ UNCHANGED notParse

\* The review strategies, the catch, and return { rating, totalReviews }.
ExtractReviews ==
    /\ pState = "reviews"
    /\ LET r == ReviewChain(pRatingPage)
       IN  /\ pTried' = pTried \cup r.tried
           /\ pThrew' = IF r.threw THEN pThrew \cup {"totalReviews"} ELSE pThrew
           /\ pOut' = [pOut EXCEPT !.totalReviews = r.value]
           /\ pState' = IF r.threw /\ ~BlockCatches("totalReviews")
                        THEN "escaped" ELSE "returned"
    /\ UNCHANGED <<pFn, pVariant, pDetail, pRatingPage>>
    /\ UNCHANGED notParse

-----------------------------------------------------------------------------
(* delay(minMs, maxMs): src/src/utils/delay.js                               *)

\* Bound of the model: the largest argument handed to delay.
MaxDelayMs == 5

\* Bound of the model: Math.random() is one of 0/g, 1/g, ..., (g-1)/g.
RandomGrain == 8

\* The arguments tried: negative, zero and positive, in either order.
DelayArgs == -2 .. MaxDelayMs

\* A faulty variant of DelayMs: the span is one too long.
DelayMsSpanTooLong(minMs, maxMs, k) ==
    ((k * (maxMs - minMs + 2)) \div RandomGrain) + minMs

\* Math.floor(Math.random() * (maxMs - minMs + 1)) + minMs, for the random
\* number k / RandomGrain (\div rounds down, as Math.floor does).
DelayMs(minMs, maxMs, k) ==
    ((k * (maxMs - minMs + 1)) \div RandomGrain) + minMs

\* How long setTimeout(resolve, ms) waits: a timeout below 1 ms is run as
\* 1 ms.  (The arguments of the model stay far below the timer's upper limit.)
TimerDuration(ms) == IF ms < 1 THEN 1 ELSE ms

DelayIdle ==
    /\ dlMin = 0
    /\ dlMax = 0
    /\ dlState = "idle"
    /\ dlMs = 0
    /\ dlSlept = 0

\* delay(minMs, maxMs) up to its return: ms is computed and the timer is set.
DelayStart ==
    /\ dlState = "called"
    /\ \E k \in 0 .. RandomGrain - 1 :
         LET ms == DelayMs(dlMin, dlMax, k)
         IN  /\ dlMs' = ms
             /\ dlSlept' = TimerDuration(ms)
    /\ dlState' = "sleeping"
    /\ UNCHANGED <<dlMin, dlMax>>
    /\ UNCHANGED notDelay

\* The timer fires and the promise resolves.
DelayResolve ==
    /\ dlState = "sleeping"
    /\ dlState' = "resolved"
    /\ UNCHANGED <<dlMin, dlMax, dlMs, dlSlept>>
    /\ UNCHANGED notDelay

-----------------------------------------------------------------------------
(* createRateLimiter(maxPerWindow, windowMs): src/src/utils/rateLimit.js      *)

\* Bounds of the model: the largest maxPerWindow and windowMs a limiter is
\* created with, the number of callers that share it, and the number of
\* acquire() calls they make together.
MaxPerWindowBound == 2
MaxWindowMs == 2
NumCallers == 3
MaxAcquires == 3

Callers == 1 .. NumCallers

\* A faulty variant of Expired: a timestamp windowMs old is dropped already.
ExpiredAtWindow(age, windowMs) == age >= windowMs

\* A faulty variant of Expired: no timestamp is ever dropped.
ExpiredNever(age, windowMs) == FALSE

\* timestamps[0] < cut, with cut = now - windowMs and age = now - timestamps[0]
Expired(age, windowMs) == age > windowMs

\* while (timestamps.length && timestamps[0] < cut) timestamps.shift()
RECURSIVE Shifted(_, _)
Shifted(ages, windowMs) ==
    IF Len(ages) > 0 /\ Expired(ages[1], windowMs)
    THEN Shifted(Tail(ages), windowMs)
    ELSE ages

\* setTimeout(r, wait) with wait = timestamps[0] + windowMs - now.  For an
\* empty list timestamps[0] is undefined and wait is NaN, which the timer
\* runs as 1 ms, as it does a wait below 1 ms.
WaitTimer(ages, windowMs) ==
    IF Len(ages) = 0 THEN 1 ELSE TimerDuration(windowMs - ages[1])

\* The age of a timestamp 1 ms later.  Ages above windowMs are not told apart:
\* such a timestamp is expired whatever its age.
Older(age, windowMs) == IF age > windowMs THEN age ELSE age + 1

LimiterIdle ==
    /\ rlMaxPerWindow = 0
    /\ rlWindowMs = 0
    /\ rlTimestamps = <<>>
    /\ rlState = [c \in Callers |-> "idle"]
    /\ rlTimer = [c \in Callers |-> 0]
    /\ rlGrants = <<>>
    /\ rlCalls = 0
    /\ rlWaited = [c \in Callers |-> FALSE]

\* The body of acquire() up to its await or its return (lines 10-18), run
\* without interruption: the caller is made to wait, or is granted.
Check(c, waitedBefore) ==
    LET kept == Shifted(rlTimestamps, rlWindowMs)
    IN  IF Len(kept) >= rlMaxPerWindow
        THEN /\ rlTimestamps' = kept
             /\ rlState' = [rlState EXCEPT ![c] = "waiting"]
             /\ rlTimer' = [rlTimer EXCEPT ![c] = WaitTimer(kept, rlWindowMs)]
             /\ rlWaited' = [rlWaited EXCEPT ![c] = TRUE]
             /\ UNCHANGED rlGrants
        ELSE /\ rlTimestamps' = Append(kept, 0)
             /\ rlState' = [rlState EXCEPT ![c] = "granted"]
             /\ rlGrants' = Append(rlGrants, 0)
             /\ rlWaited' = [rlWaited EXCEPT ![c] = waitedBefore]
             /\ UNCHANGED rlTimer

\* A caller calls limiter.acquire().
Acquire(c) ==
    /\ rlState[c] = "idle"
    /\ rlCalls < MaxAcquires
    /\ rlCalls' = rlCalls + 1
    /\ Check(c, FALSE)
    /\ UNCHANGED <<rlMaxPerWindow, rlWindowMs>>
    /\ UNCHANGED notLimiter

\* The timer of a waiting acquire() fires: return this.acquire().
TimerFires(c) ==
    /\ rlState[c] = "waiting"
    /\ rlTimer[c] = 0
    /\ Check(c, TRUE)
    /\ UNCHANGED <<rlMaxPerWindow, rlWindowMs, rlCalls>>
    /\ UNCHANGED notLimiter

\* The promise of a granted acquire() is resolved and its caller goes on.
AcquireResolved(c) ==
    /\ rlState[c] = "granted"
    /\ rlState' = [rlState EXCEPT ![c] = "idle"]
    /\ UNCHANGED <<rlMaxPerWindow, rlWindowMs, rlTimestamps, rlTimer, rlGrants, rlCalls,
                   rlWaited>>
    /\ UNCHANGED notLimiter

\* Date.now() advances by 1 ms.
Tick ==
    /\ rlTimestamps' = [k \in 1 .. Len(rlTimestamps) |->
                          Older(rlTimestamps[k], rlWindowMs)]
    /\ rlGrants' = SelectSeq([k \in 1 .. Len(rlGrants) |-> rlGrants[k] + 1],
                            LAMBDA age : age <= rlWindowMs)
    /\ rlTimer' = [c \in Callers |-> IF rlTimer[c] > 0 THEN rlTimer[c] - 1 ELSE 0]
    /\ UNCHANGED <<rlMaxPerWindow, rlWindowMs, rlState, rlCalls, rlWaited>>
    /\ UNCHANGED notLimiter

-----------------------------------------------------------------------------
(* Specifications                                                            *)

\* Every part of the program but `part` is in the state in which it has not
\* been called.  (The run calls retry, which InitRetry and Init set up
\* themselves.)
IdleBut(part) ==
    /\ IF part \in {"retry", "run"} THEN TRUE ELSE RetryIdle
    /\ IF part = "run" THEN TRUE ELSE RunIdle
    /\ IF part = "dedupe" THEN TRUE ELSE DedupeIdle
    /\ IF part = "scroll" THEN TRUE ELSE ScrollIdle
    /\ IF part = "links" THEN TRUE ELSE LinkIdle
    /\ IF part = "upsert" THEN TRUE ELSE UpsertIdle
    /\ IF part = "parse" THEN TRUE ELSE ParseIdle
    /\ IF part = "delay" THEN TRUE ELSE DelayIdle
    /\ IF part = "limiter" THEN TRUE ELSE LimiterIdle

\* retry called directly with any options.
InitRetry ==
    /\ rOpts \in RetryOptions
    /\ rState = "loop"
    /\ rAttempt = 1
    /\ rLastErr = "undefined"
    /\ rOutcome = Err("undefined")
    /\ rCalls = <<>>
    /\ rWaits = <<>>
    /\ rCaller = "test"
    /\ rested = TRUE
    /\ IdleBut("retry")

NextRetry == RetryCallReturns \/ RetryCallThrows \/ RetryWaitDone \/ RetryLoopExit

SpecRetry == InitRetry /\ [][NextRetry]_vars

\* dedupeStays called directly with any list of at most MaxList entries.
InitDedupe ==
    /\ dIn \in SeqsUpTo(StayPool, MaxList)
    /\ dOut = <<>>
    /\ dDone = FALSE
    /\ rested = TRUE
    /\ IdleBut("dedupe")

NextDedupe == DedupeApply

SpecDedupe == InitDedupe /\ [][NextDedupe]_vars

\* One run of the entry point.
Init ==
    /\ pc = "main"
    /\ dbUrl \in BOOLEAN
    /\ site \in [PlaceUrls -> PageContents]
    /\ launched = FALSE
    /\ closeCount = 0
    /\ qi = 1
    /\ urls = <<>>
    /\ ui = 1
    /\ seenUrls = {}
    /\ allStays = <<>>
    /\ pending = "none"
    /\ result = <<>>
    /\ table = <<>>
    /\ exitCode = -1
    /\ runState = "notCalled"
    /\ upsertState = "notCalled"
    /\ failCause = "none"
    /\ itemLog = <<>>
    /\ firstQuery = [u \in PlaceUrls |-> 0]
    /\ rested = TRUE
    /\ RetryIdle
    /\ IdleBut("run")

\* RetryLoopExit is left out: with maxAttempts 3 and 2 the loop is never left
\* through its condition.
Next ==
    \/ LaunchBrowser
    \/ NewPage
    \/ QueryLoop
    \/ RetryCallReturns
    \/ RetryCallThrows
    \/ RetryWaitDone
    \/ SearchNavEnds
    \/ SearchDelay
    \/ ScrollFeed
    \/ CollectUrls
    \/ ItemLoop
    \/ ItemNavEnds
    \/ ItemNavDelay
    \/ Extract
    \/ ItemDelay
    \/ Finally
    \/ SaveStays

Spec == Init /\ [][Next]_vars

\* scrollFeedUntilDone called on a page, in either variant, followed by
\* getPlaceUrls.
InitScroll ==
    /\ sVariant \in ScrollVariants
    /\ sFeed \in FeedStates
    /\ sState = "loop"
    /\ sI = 0
    /\ sLastCount = 0
    /\ sStable = 0
    /\ sCount = 0
    /\ sTaken = 0
    /\ sScrolls = 0
    /\ sRun = 0
    /\ sFirst = <<>>
    /\ sEndSeen = FALSE
    /\ sUrls = <<>>
    /\ rested = TRUE
    /\ IdleBut("scroll")

NextScroll == ScrollCount \/ ScrollPause \/ ScrollCapReached \/ ScrollCollect

SpecScroll == InitScroll /\ [][NextScroll]_vars

\* getPlaceUrls called directly on any list of at most MaxLinks links.
InitLinks ==
    /\ lIn \in SeqsUpTo(HrefPool, MaxLinks)
    /\ lOut = <<>>
    /\ lDone = FALSE
    /\ rested = TRUE
    /\ IdleBut("links")

NextLinks == LinksApply

SpecLinks == InitLinks /\ [][NextLinks]_vars

\* upsertStays called up to MaxCalls times on a table that starts empty.
InitUpsert ==
    /\ uDbUrl \in BOOLEAN
    /\ uTable = <<>>
    /\ uState = "idle"
    /\ uRows = <<>>
    /\ uI = 0
    /\ uProcessed = -1
    /\ uBatches = <<>>
    /\ uCalls = 0
    /\ uTableAtCall = <<>>
    /\ uRerun = FALSE
    /\ rested = TRUE
    /\ IdleBut("upsert")

NextUpsert == UpsertCall \/ UpsertBatch \/ UpsertReturn

SpecUpsert == InitUpsert /\ [][NextUpsert]_vars

\* parseDetailPanel or extractRatingAndReviews called on any page.
InitParse ==
    /\ pFn \in ParseFns
    /\ pVariant \in ParseVariants
    /\ IF pFn = "parseDetailPanel"
       THEN pDetail \in DetailPages /\ pRatingPage = BlankRatingPage /\ pState = "address"
       ELSE pDetail = BlankDetailPage /\ pRatingPage \in RatingPages /\ pState = "rating"
    /\ pOut = [address |-> Null, phone |-> Null, website |-> Null,
               imageUrls |-> <<>>, latitude |-> Null, longitude |-> Null,
               rating |-> Null, totalReviews |-> Null]
    /\ pTried = {}
    /\ pThrew = {}
    /\ rested = TRUE
    /\ IdleBut("parse")

NextParse ==
    \/ ParseAddress
    \/ ParsePhone
    \/ ParseWebsite
    \/ ParseImages
    \/ ParseReturn
    \/ ExtractRating
    \/ ExtractReviews

SpecParse == InitParse /\ [][NextParse]_vars

\* delay called with any two arguments.
InitDelay ==
    /\ dlMin \in DelayArgs
    /\ dlMax \in DelayArgs
    /\ dlState = "called"
    /\ dlMs = 0
    /\ dlSlept = 0
    /\ rested = TRUE
    /\ IdleBut("delay")

NextDelay == DelayStart \/ DelayResolve

SpecDelay == InitDelay /\ [][NextDelay]_vars

\* A limiter created with any maxPerWindow and windowMs, shared by callers
\* that call acquire() whenever they like.
InitLimiter ==
    /\ rlMaxPerWindow \in 0 .. MaxPerWindowBound
    /\ rlWindowMs \in 0 .. MaxWindowMs
    /\ rlTimestamps = <<>>
    /\ rlState = [c \in Callers |-> "idle"]
    /\ rlTimer = [c \in Callers |-> 0]
    /\ rlGrants = <<>>
    /\ rlCalls = 0
    /\ rlWaited = [c \in Callers |-> FALSE]
    /\ rested = TRUE
    /\ IdleBut("limiter")

NextLimiter ==
    \/ \E c \in Callers : Acquire(c)
    \/ \E c \in Callers : TimerFires(c)
    \/ \E c \in Callers : AcquireResolved(c)
    \/ Tick

SpecLimiter == InitLimiter /\ [][NextLimiter]_vars

\* The same, with a clock that keeps advancing and timers that fire once
\* they are due.
SpecLimiterFair ==
    /\ InitLimiter
    /\ [][NextLimiter]_vars
    /\ WF_vars(Tick)
    /\ \A c \in Callers : WF_vars(TimerFires(c))

-----------------------------------------------------------------------------
(* Properties of retry, under SpecRetry                                      *)

LastCall == rCalls[Len(rCalls)]

\* C1: when the operation fails on its first k invocations and succeeds on
\* invocation k+1 (k < maxAttempts), retry returns that success value after
\* exactly k+1 invocations and exactly k waits, and the i-th wait lasts
\* min(initialMs * 2^(i-1), maxMs) milliseconds.
C1_SuccessAfterKFailures ==
    (Len(rCalls) > 0 /\ LastCall.kind = "ok") =>
        LET k == Len(rCalls) - 1
        IN  /\ \A i \in 1 .. k : rCalls[i].kind = "err"
            /\ k < rOpts.maxAttempts
            /\ rState = "returned"
            /\ rOutcome = LastCall
            /\ Len(rWaits) = k
            /\ \A i \in 1 .. k :
                 LET full == rOpts.initialMs * 2 ^ (i - 1)
                 IN  rWaits[i] = IF full <= rOpts.maxMs THEN full ELSE rOpts.maxMs

\* Three failures, then a success, with waits 1000, 2000 and the cap 2500.
C1_Witness ==
    /\ rState = "returned"
    /\ Len(rCalls) = 4
    /\ rWaits = <<1000, 2000, 2500>>

\* C2 as stated: with the default shouldRetry, an operation that fails on
\* every invocation is invoked exactly maxAttempts times, with exactly
\* maxAttempts - 1 waits, and retry throws the last invocation's error.
C2_Original ==
    (rOpts.shouldRetry = DefaultShouldRetry /\ rState = "threw") =>
        /\ Len(rCalls) = rOpts.maxAttempts
        /\ Len(rWaits) = rOpts.maxAttempts - 1
        /\ Len(rCalls) >= 1
        /\ rOutcome = LastCall

\* C2 amended: the same, for maxAttempts >= 1.
C2_AlwaysFailing ==
    (rOpts.maxAttempts >= 1 /\ rOpts.shouldRetry = DefaultShouldRetry
        /\ rState = "threw") =>
        /\ Len(rCalls) = rOpts.maxAttempts
        /\ \A i \in 1 .. Len(rCalls) : rCalls[i].kind = "err"
        /\ Len(rWaits) = rOpts.maxAttempts - 1
        /\ rOutcome = LastCall

\* The default policy's three attempts all failed.
C2_Witness ==
    /\ rOpts.shouldRetry = DefaultShouldRetry
    /\ rOpts.maxAttempts = DefaultMaxAttempts
    /\ rState = "threw"
    /\ Len(rCalls) = 3
    /\ Len(rWaits) = 2

\* C3: when shouldRetry(err) is false for a failed invocation, retry throws
\* that error at once: no wait and no invocation follows that failure, even
\* when attempts remain.
C3_NoRetryWhenPredicateFalse ==
    \A i \in 1 .. Len(rCalls) :
        (rCalls[i].kind = "err" /\ ~rOpts.shouldRetry[rCalls[i].val]) =>
            /\ i = Len(rCalls)
            /\ Len(rWaits) = i - 1
            /\ rState = "threw"
            /\ rOutcome = rCalls[i]

\* The second of four attempts fails with an error shouldRetry rejects.
C3_Witness ==
    /\ rOpts.maxAttempts = 4
    /\ rState = "threw"
    /\ Len(rCalls) = 2
    /\ ~rOpts.shouldRetry[rCalls[2].val]
    /\ rOpts.shouldRetry[rCalls[1].val]

-----------------------------------------------------------------------------
(* Properties of dedupeStays, under SpecDedupe                               *)

LowerName(s) == ToLowerCase(OrEmpty(s.name))
LowerAddress(s) == ToLowerCase(OrEmpty(s.address))
SameNameAddress(s, t) ==
    LowerName(s) = LowerName(t) /\ LowerAddress(s) = LowerAddress(t)
SameCanonicalUrl(s, t) ==
    SplitQuery(s.googleMapsUrl) = SplitQuery(t.googleMapsUrl)

\* C4: the output of dedupeStays holds no two records whose googleMapsUrl is
\* equal after stripping the query string, and no two records whose
\* lowercased name and lowercased address are both equal (a missing one
\* counting as the empty string).
C4_NoDuplicateKeys ==
    dDone =>
        \A i, j \in 1 .. Len(dOut) :
            i # j => /\ dOut[i] # NullStay
                     /\ dOut[j] # NullStay
                     /\ ~SameCanonicalUrl(dOut[i], dOut[j])
                     /\ ~SameNameAddress(dOut[i], dOut[j])

\* A list with both kinds of duplicates.
C4_Witness ==
    /\ dDone
    /\ dIn = <<ExA3, ExA1, ExC, ExB>>
    /\ dOut = <<ExA3, ExC>>

RECURSIVE IsSubsequence(_, _)
IsSubsequence(a, b) ==
    IF a = <<>> THEN TRUE
    ELSE IF b = <<>> THEN FALSE
    ELSE IF Head(a) = Head(b) THEN IsSubsequence(Tail(a), Tail(b))
    ELSE IsSubsequence(a, Tail(b))

\* The entries of the input that carry a URL.
WithUrl == {i \in 1 .. Len(dIn) : dIn[i] # NullStay /\ Truthy(dIn[i].googleMapsUrl)}
\* The first entry of each group sharing a canonical URL.
UrlSurvivors ==
    {i \in WithUrl : \A j \in WithUrl : j < i => ~SameCanonicalUrl(dIn[j], dIn[i])}
FirstOf(S) == CHOOSE i \in S : \A j \in S : i <= j

\* C5: dedupeStays keeps first occurrences in first-seen order: the output
\* is a subsequence of the input; a record kept is the earliest input record
\* of its canonical URL, and the earliest survivor of the URL pass with its
\* lowercased name and address; and the specification's example list gives
\* the first A record and B's record.
C5_FirstOccurrenceWins ==
    dDone =>
        /\ IsSubsequence(dOut, dIn)
        /\ \A k \in 1 .. Len(dOut) :
             /\ \A i \in WithUrl :
                  SameCanonicalUrl(dOut[k], dIn[i]) =>
                      dOut[k] = dIn[FirstOf({j \in WithUrl :
                                               SameCanonicalUrl(dIn[j], dIn[i])})]
             /\ \A i \in UrlSurvivors :
                  SameNameAddress(dOut[k], dIn[i]) =>
                      dOut[k] = dIn[FirstOf({j \in UrlSurvivors :
                                               SameNameAddress(dIn[j], dIn[i])})]
        /\ (dIn = <<ExA1, ExA2, ExB, ExC>> => dOut = <<ExA1, ExB>>)

\* The specification's example.
C5_Witness ==
    /\ dDone
    /\ dIn = <<ExA1, ExA2, ExB, ExC>>
    /\ dOut = <<ExA1, ExB>>

-----------------------------------------------------------------------------
(* Properties of the run, under Spec                                         *)

Recovered(url) == Truthy(site[url].name) \/ Truthy(site[url].address)

\* C6: an item for which neither a name nor an address is recovered never
\* appears in the results of runScraper, whatever other fields were recovered.
C6_NamelessAddresslessExcluded ==
    /\ \A k \in 1 .. Len(allStays) : Recovered(allStays[k].googleMapsUrl)
    /\ \A k \in 1 .. Len(result) : Recovered(result[k].googleMapsUrl)
    /\ \A k \in 1 .. Len(itemLog) :
         ~Recovered(itemLog[k].url) => itemLog[k].outcome # "kept"

\* A page with a rating and a phone number but no name and no address was
\* visited, and runScraper returned without it.
C6_Witness ==
    /\ runState = "returned"
    /\ Len(result) = 1
    /\ \E k \in 1 .. Len(itemLog) :
         /\ itemLog[k].outcome = "skipped"
         /\ site[itemLog[k].url].stars = "full"

\* C7 as stated: in every execution in which launchBrowser produced the
\* browser, the browser is closed exactly once before runScraper returns or
\* throws, whatever fails afterwards (page creation included).
C7_BrowserClosedOnce ==
    (launched /\ failCause # "context" /\ runState \in {"returned", "threw"}) =>
        closeCount = 1

ScrapePcs == {"itemNav", "itemNavDelay", "extract"}

ItemFailsNow ==
    \/ pc = "itemNav" /\ rState = "threw"
    \/ pc = "extract" /\ site[urls[ui]].stars = "absent"

\* C8: a failure while processing one item never aborts the run:
\* scrapeOnePlace never throws (it always hands control back to the item
\* loop), a failed item adds nothing to the results, and the loop goes on to
\* the next URL of the query and then to the next query.
C8_ItemFailureNeverAborts ==
    [][/\ (pc \in ScrapePcs /\ pc' \notin ScrapePcs) =>
            (pc' = "itemDelay" /\ failCause' = "none" /\ exitCode' = -1)
       /\ (ItemFailsNow /\ pc' # pc) =>
            (pc' = "itemDelay" /\ allStays' = allStays /\ pending' = "none")
       /\ (pc = "itemDelay" /\ pc' # pc) =>
            (pc' = "itemLoop" /\ ui' = ui + 1 /\ qi' = qi /\ urls' = urls)
       /\ (pc = "itemLoop" /\ ui > Len(urls) /\ pc' # pc) =>
            (pc' = "queryLoop" /\ qi' = qi + 1)]_vars

\* The first item's navigation failed twice, the next item was kept, and the
\* run ended with status 0.
C8_Witness ==
    /\ pc = "exited"
    /\ exitCode = 0
    /\ Len(itemLog) = 2
    /\ itemLog[1].outcome = "navFailed"
    /\ itemLog[2].outcome = "kept"

\* C9 as stated: only missing configuration and a failure to set up the
\* browser session (launch, context, page) end a run with an error.
C9_Original ==
    (pc = "exited" /\ exitCode = 1) =>
        failCause \in {"config", "launch", "context", "newPage"}

\* C9 amended: a run ends with an error on missing configuration, on a
\* failure to set up the browser session, on a search navigation that
\* exhausts its retries, on a failure while scrolling or collecting URLs, on
\* a failure to close the browser, and on a datastore error; each of these
\* ends it, and an item failure never does.
C9_FatalFailures ==
    /\ (pc = "exited" /\ exitCode = 1) =>
          failCause \in {"config", "launch", "context", "newPage",
                         "searchNav", "scroll", "collect", "close", "db"}
    /\ failCause # "none" =>
          /\ pc \in {"finally", "exited"}
          /\ pc = "exited" => exitCode = 1
    /\ (pc = "searchNav" /\ rState = "threw") => Len(rCalls) = 3

\* An item failed and the run went on; the next query's search navigation
\* then exhausted its retries and ended the run.
C9_Witness ==
    /\ pc = "exited"
    /\ exitCode = 1
    /\ failCause = "searchNav"
    /\ qi = 2
    /\ Len(itemLog) = 1
    /\ itemLog[1].outcome = "threw"

\* C10: the entry point ends with status 0 exactly when runScraper and, for
\* a non-empty result, upsertStays both complete without throwing (nothing
\* to save included), and with status 1 whenever either throws, a missing
\* DATABASE_URL included.
C10_ExitStatus ==
    pc = "exited" =>
        /\ exitCode \in {0, 1}
        /\ exitCode = 0 <=>
             (runState = "returned" /\ (Len(result) > 0 => upsertState = "returned"))
        /\ (runState = "threw" \/ upsertState = "threw") => exitCode = 1
        /\ (Len(result) = 0 /\ runState = "returned") =>
             (upsertState = "notCalled" /\ exitCode = 0)
        /\ (~dbUrl /\ runState = "returned" /\ Len(result) > 0) => exitCode = 1

\* runScraper returned a record and DATABASE_URL is not set.
C10_Witness ==
    /\ pc = "exited"
    /\ exitCode = 1
    /\ ~dbUrl
    /\ runState = "returned"
    /\ Len(result) > 0
    /\ upsertState = "threw"

-----------------------------------------------------------------------------
(* Properties of scrollFeedUntilDone and getPlaceUrls, under SpecScroll and  *)
(* SpecLinks                                                                 *)

ScrollOver == sState \in {"returned", "collected"}

C11_Cap == IF sVariant = "js" THEN 100 ELSE 150

C11_Threshold == IF sVariant = "js" THEN 3 ELSE 5

\* C11: whatever counts the page reports, scrollFeedUntilDone takes at most
\* 100 counts and does at most 100 scrolls (150 in the improved variant), and
\* when it returns after fewer counts than that, the last 3 (5) counts all
\* repeated their predecessor or, in the improved variant, the end-of-results
\* text was visible.  (The bounded loop counter is what makes it terminate.)
C11_ScrollTerminates ==
    /\ sI <= C11_Cap
    /\ sTaken <= C11_Cap
    /\ sScrolls <= C11_Cap
    /\ (ScrollOver /\ sTaken < C11_Cap)
          => \/ sRun >= C11_Threshold
             \/ sVariant = "ts" /\ sEndSeen

\* A feed that grew on every one of 100 iterations: the loop ran to its cap.
C11_Witness ==
    /\ sVariant = "js"
    /\ sState = "returned"
    /\ sTaken = 100
    /\ sCount = 100
    /\ sRun = 0

\* C12 as stated: once the counts 5, 9, 9, 9 have been taken with threshold 3,
\* scrollFeedUntilDone has stopped (no 5th count follows), and getPlaceUrls
\* returns 9 URLs.
C12_Original ==
    (sVariant = "js" /\ sFirst = <<5, 9, 9, 9>>)
        => /\ ScrollOver
           /\ sState = "collected" => Len(sUrls) = 9

\* C12, amended: after the counts 5, 9, 9, 9 only two counts in a row have
\* repeated their predecessor, so the loop scrolls a 4th time and goes on to
\* a 5th count; with the counts 5, 9, 9, 9, 9 it stops at the 5th count after
\* 4 scrolls, and getPlaceUrls then returns exactly 9 URLs, all different.
C12_StopsAtFifthCount ==
    sVariant = "js" =>
        /\ sFirst = <<5, 9, 9, 9>>
              => /\ sState \in {"pause", "loop"}
                 /\ sScrolls = 4
        /\ sFirst = <<5, 9, 9, 9, 9>>
              => /\ ScrollOver
                 /\ sTaken = 5
                 /\ sScrolls = 4
                 /\ sState = "collected"
                       => /\ Len(sUrls) = 9
                          /\ \A i, j \in 1 .. 9 : sUrls[i] = sUrls[j] => i = j

C12_Witness ==
    /\ sVariant = "js"
    /\ sFirst = <<5, 9, 9, 9, 9>>
    /\ sState = "collected"
    /\ Len(sUrls) = 9

\* C13: when the results container is not there, scrollFeedUntilDone does not
\* throw, and the collection that follows yields the empty list.
C13_AbsentFeedIsEmpty ==
    sFeed = "absent"
        => /\ sState # "threw"
           /\ sState = "collected" => sUrls = <<>>

HasQuery(u) == \E i \in 1 .. Len(u) : u[i] = "?"

IsAbsolute(u) == Len(u) >= 4 /\ SubSeq(u, 1, 4) = <<"h", "t", "t", "p">>

\* u is href made absolute and cut before its first "?".
IsCanonicalOf(u, href) ==
    LET full == IF IsAbsolute(href) THEN href ELSE Origin \o href
    IN  /\ ~HasQuery(u)
        /\ \/ full = u
           \/ /\ Len(full) > Len(u)
              /\ SubSeq(full, 1, Len(u)) = u
              /\ full[Len(u) + 1] = "?"

LinksWith(u) == {k \in 1 .. Len(lIn) : Truthy(lIn[k]) /\ IsCanonicalOf(u, lIn[k])}

FirstLinkWith(u) == CHOOSE k \in LinksWith(u) : \A m \in LinksWith(u) : k <= m

\* C14: getPlaceUrls returns a list without duplicates, of absolute URLs
\* without a query string, that holds the canonical form of every link with
\* an href and nothing else, in the order in which the links first show each.
C14_CanonicalUrlsInOrder ==
    lDone =>
        /\ \A i, j \in 1 .. Len(lOut) : lOut[i] = lOut[j] => i = j
        /\ \A i \in 1 .. Len(lOut) : IsAbsolute(lOut[i]) /\ ~HasQuery(lOut[i])
        /\ \A k \in 1 .. Len(lIn) :
              Truthy(lIn[k]) => \E i \in 1 .. Len(lOut) : IsCanonicalOf(lOut[i], lIn[k])
        /\ \A i \in 1 .. Len(lOut) : LinksWith(lOut[i]) # {}
        /\ \A i, j \in 1 .. Len(lOut) :
              i < j => FirstLinkWith(lOut[i]) < FirstLinkWith(lOut[j])

\* Three links, two of them to the same place: /B, /A?q and the absolute /A.
C14_Witness ==
    /\ lDone
    /\ lIn = << <<"/", "B">>, <<"/", "A", "?", "q">>, Origin \o <<"/", "A">> >>
    /\ lOut = << Origin \o <<"/", "B">>, Origin \o <<"/", "A">> >>

-----------------------------------------------------------------------------
(* Pacing of the run, under Spec                                             *)

\* A step in which page.goto is called (each invocation of the function that
\* retry wraps is one navigation).
Navigates == Len(rCalls') = Len(rCalls) + 1

\* C20: navigations are strictly sequential and paced: while a navigation is
\* pending nothing else happens before it has resolved or rejected, and
\* whenever a navigation is made after an earlier one (a search, an item, or
\* a retried attempt), a random delay or a backoff wait has completed in
\* between.
C20_DelayBetweenNavigations ==
    [][/\ Navigates => rested
       /\ rState = "loop" => Navigates]_vars

\* The first item's navigation failed on both attempts, and the second item's
\* navigation has just been made: the only pause in between was the item
\* loop's delay.
C20_Witness ==
    /\ rCaller = "item"
    /\ Len(rCalls) = 1
    /\ ~rested
    /\ Len(itemLog) = 1
    /\ itemLog[1].outcome = "navFailed"

-----------------------------------------------------------------------------
(* Properties of upsertStays, under SpecUpsert                               *)

RECURSIVE Concat(_)
Concat(batches) ==
    IF batches = <<>> THEN <<>>
    ELSE Concat(SubSeq(batches, 1, Len(batches) - 1)) \o batches[Len(batches)]

\* ceil(n / 50)
CeilOver50(n) == (n + 49) \div 50

\* C15: when upsertStays returns from a list of n >= 1 rows it has issued
\* ceil(n/50) inserts, each of at most 50 rows and all but the last of
\* exactly 50, the batches in issue order make up the input list, and
\* processed is n, whatever the table skipped.
C15_BatchesCoverInput ==
    (uState = "returned" /\ Len(uRows) >= 1)
        => /\ Len(uBatches) = CeilOver50(Len(uRows))
           /\ \A b \in 1 .. Len(uBatches) :
                 /\ Len(uBatches[b]) <= 50
                 /\ Len(uBatches[b]) >= 1
                 /\ b < Len(uBatches) => Len(uBatches[b]) = 50
           /\ Concat(uBatches) = uRows
           /\ uProcessed = Len(uRows)

\* 101 rows went out in three batches, every row was skipped as a conflict,
\* and processed is 101.
C15_Witness ==
    /\ uState = "returned"
    /\ Len(uRows) = 101
    /\ Len(uBatches) = 3
    /\ uCalls = 2
    /\ Len(uTableAtCall) = 101
    /\ uTable = uTableAtCall
    /\ uRows # uTable
    /\ uProcessed = 101

\* C16: the table never holds two rows with the same googleMapsUrl, no step
\* changes or removes a row that is in the table (an insert carrying a URL
\* that is already there is skipped without an error), and a call that
\* repeats the rows of the call that returned before it leaves the table as
\* it found it.
C16_FirstWriteWins ==
    /\ [](\A i, j \in 1 .. Len(uTable) :
             uTable[i].googleMapsUrl = uTable[j].googleMapsUrl => i = j)
    /\ [](uRerun => uTable = uTableAtCall)
    /\ [][/\ Len(uTable') >= Len(uTable)
          /\ \A k \in 1 .. Len(uTable) : uTable'[k] = uTable[k]]_vars

\* A second call brought other data for URLs 1..51 and returned; the table
\* still holds the first call's 51 rows.
C16_Witness ==
    /\ uCalls = 2
    /\ uState = "returned"
    /\ Len(uRows) = 51
    /\ Len(uTable) = 51
    /\ uRows[1].googleMapsUrl = uTable[1].googleMapsUrl
    /\ uRows[1].name # uTable[1].name

-----------------------------------------------------------------------------
(* Properties of parseDetailPanel and extractRatingAndReviews, under         *)
(* SpecParse                                                                 *)

ParseOver == pState \in {"returned", "escaped"}

\* C17: each strategy is fault-tolerant on its own: when the preferred read
\* of a field rejects, the field's fallback is still attempted (the address
\* panel text, the phone button in parser.ts, the website scan, the
\* alternative stars text), and the other fields are still extracted (a
\* rejected read of the stars label leaves the review strategies attempted).
C17_FallbackAfterThrow ==
    (ParseOver /\ pFn = "parseDetailPanel")
        => /\ pDetail.addrButton = "throws" => "addrPanel" \in pTried
           /\ (pDetail.telLink = "throws" /\ pVariant = "ts") => "phoneButton" \in pTried
           /\ pDetail.webLink = "throws" => "webScan" \in pTried
           /\ {"addrButton", "telLink", "webLink", "images"} \subseteq pTried

C17_RatingThrowKeepsReviews ==
    (ParseOver /\ pFn = "extractRatingAndReviews")
        => /\ pRatingPage.stars = "throws" => "starsText" \in pTried
           /\ "reviewButton" \in pTried

C17_EachStrategyFaultTolerant == C17_FallbackAfterThrow /\ C17_RatingThrowKeepsReviews

\* No strategy of the field yields a value on this page.
NothingFor(field) ==
    CASE field = "address" ->
            pDetail.addrButton \in {"invisible", "blank", "throws"} /\ pDetail.addrPanel = "none"
      [] field = "phone" ->
            /\ pDetail.telLink # "number"
            /\ pVariant = "ts" => pDetail.phoneButton # "text"
      [] field = "website" ->
            pDetail.webLink # "href" /\ pDetail.webScan # "found"
      [] field = "imageUrls" -> pDetail.images # "some"
      [] field = "latitude" -> ~pDetail.coords
      [] field = "longitude" -> ~pDetail.coords
      [] field = "rating" ->
            pRatingPage.stars # "label" /\ pRatingPage.starsText = "none"
      [] field = "totalReviews" ->
            /\ pRatingPage.reviewButton # "label"
            /\ pRatingPage.reviewSpan = "none"
            /\ pRatingPage.panelText = "none"

FieldsOf(fn) ==
    IF fn = "parseDetailPanel"
    THEN {"address", "phone", "website", "imageUrls", "latitude", "longitude"}
    ELSE {"rating", "totalReviews"}

\* C18 as stated: parseDetailPanel and extractRatingAndReviews never throw:
\* whatever is missing, invisible or timing out, no exception leaves them,
\* and in the returned object every field for which the page yields nothing
\* is null, the image list being empty (and never longer than 3).
C18_NeverThrows ==
    /\ pState # "escaped"
    /\ pState = "returned" =>
          /\ \A f \in FieldsOf(pFn) :
                NothingFor(f) => pOut[f] = (IF f = "imageUrls" THEN <<>> ELSE Null)
          /\ Len(pOut.imageUrls) <= 3

-----------------------------------------------------------------------------
(* Properties of delay, under SpecDelay                                      *)

DelaySet == dlState \in {"sleeping", "resolved"}

\* C19 as stated: for all integers minMs and maxMs, also with minMs > maxMs,
\* delay suspends for a duration d with minMs <= d <= maxMs (d taken as the
\* timeout it computes).
C19_Original ==
    DelaySet => (dlMin <= dlMs /\ dlMs <= dlMax)

\* C19, amended: with 1 <= minMs <= maxMs the duration d is an integer with
\* minMs <= d <= maxMs (d = minMs when the two are equal).  With
\* minMs > maxMs the timeout computed lies in maxMs+1 .. minMs, above maxMs;
\* and a timeout computed below 1 ms is waited for as 1 ms.
C19_InRangeWhenOrdered ==
    DelaySet =>
        /\ (1 <= dlMin /\ dlMin <= dlMax) => (dlMin <= dlSlept /\ dlSlept <= dlMax)
        /\ dlMin <= dlMax => (dlMin <= dlMs /\ dlMs <= dlMax)
        /\ dlMin > dlMax => (dlMax + 1 <= dlMs /\ dlMs <= dlMin)
        /\ dlSlept = (IF dlMs < 1 THEN 1 ELSE dlMs)

\* delay(2, 5) has resolved after its longest duration, 5 ms.
C19_Witness ==
    /\ dlState = "resolved"
    /\ dlMin = 2
    /\ dlMax = 5
    /\ dlSlept = 5

-----------------------------------------------------------------------------
(* Properties of the records of the run, under Spec                          *)

Unknown == <<"U", "n", "k", "n", "o", "w", "n">>

\* The ratings of the modelled pages that are numbers on the 0-5 scale.
ScaleRatings == {<<"4.5">>}

\* The review counts of the modelled pages that are non-negative integers.
ReviewCounts == {<<"120">>}

NavigationSucceeded(entry) == entry.outcome # "navFailed"

\* C21 as stated: every item whose navigation succeeds and for which a name
\* or an address is recovered yields a record in the list before
\* deduplication, whatever the other fields are; the record's name is the
\* recovered name, or 'Unknown' when only the address was recovered; no
\* record has an empty or null name.
C21_RecoveredItemYieldsRecord ==
    /\ \A k \in 1 .. Len(itemLog) :
         (NavigationSucceeded(itemLog[k]) /\ Recovered(itemLog[k].url)) =>
            \E j \in 1 .. Len(allStays) :
               /\ allStays[j].googleMapsUrl = itemLog[k].url
               /\ allStays[j].name =
                    (IF Truthy(site[itemLog[k].url].name)
                     THEN site[itemLog[k].url].name ELSE Unknown)
    /\ \A j \in 1 .. Len(allStays) : Truthy(allStays[j].name)

\* C22 as stated: the rating of every record scrapeOnePlace or runScraper
\* returns is null or a number on the 0-5 scale, never NaN; its totalReviews
\* is null or a non-negative integer.
C22_RatingOnScale ==
    /\ \A j \in 1 .. Len(allStays) :
         /\ allStays[j].rating \in {Null} \cup ScaleRatings
         /\ allStays[j].totalReviews \in {Null} \cup ReviewCounts
    /\ \A j \in 1 .. Len(result) :
         /\ result[j].rating \in {Null} \cup ScaleRatings
         /\ result[j].totalReviews \in {Null} \cup ReviewCounts

\* The calls of scrapeOnePlace for a URL: those that are over, and the one
\* under way.
VisitsOf(u) ==
    Cardinality({k \in 1 .. Len(itemLog) : itemLog[k].url = u})
    + (IF pc \in {"itemNav", "itemNavDelay", "extract"} /\ urls[ui] = u
       THEN 1 ELSE 0)

CategoryOfFirstQuery ==
    \A j \in 1 .. Len(allStays) :
       /\ firstQuery[allStays[j].googleMapsUrl] \in 1 .. Len(SearchQueries)
       /\ allStays[j].category =
             SearchQueries[firstQuery[allStays[j].googleMapsUrl]]

\* C24: across all queries of a run each canonical item URL is visited by
\* scrapeOnePlace at most once, whether that visit succeeded or failed (the
\* visit's own retry makes at most two attempts), and a record's category is
\* that of the first query, in configured order, whose result list contained
\* the URL.
C24_VisitedOnce ==
    /\ \A u \in PlaceUrls : VisitsOf(u) <= 1
    /\ (pc = "itemNav" /\ rCaller = "item") => Len(rCalls) <= 2
    /\ CategoryOfFirstQuery

\* The first query listed A, whose navigation failed twice; the second listed
\* B first, which was kept as a homestay; the third query listed both again
\* and its loop skipped both.
C24_Witness ==
    /\ qi = 3
    /\ pc = "itemLoop"
    /\ urls = << <<"A">>, <<"B">> >>
    /\ ui = 3
    /\ firstQuery = [u \in PlaceUrls |-> IF u = <<"A">> THEN 1 ELSE 2]
    /\ Len(itemLog) = 2
    /\ itemLog[1] = [url |-> <<"A">>, outcome |-> "navFailed"]
    /\ itemLog[2] = [url |-> <<"B">>, outcome |-> "kept"]
    /\ Len(allStays) = 1
    /\ allStays[1].category = "homestay"

-----------------------------------------------------------------------------
(* Properties of persistence in the run, under Spec                          *)

\* Two records the deduplication takes for the same place.
Alike(a, b) == UrlKey(a) = UrlKey(b) \/ NameAddrKey(a) = NameAddrKey(b)

\* `list` is `all` without its duplicates.
DeduplicatedFrom(list, all) ==
    /\ \A i, j \in 1 .. Len(list) : Alike(list[i], list[j]) => i = j
    /\ \A i \in 1 .. Len(list) : \E k \in 1 .. Len(all) : all[k] = list[i]
    /\ \A k \in 1 .. Len(all) : \E i \in 1 .. Len(list) : Alike(list[i], all[k])

Persisting == upsertState # "notCalled" \/ Len(table) > 0

\* C25: no row is written before the browser was closed; upsertStays is
\* called at most once in a run, and only with the deduplicated list; and
\* when runScraper throws, nothing is persisted in that run.
C25_PersistAfterCloseOnly ==
    /\ [](Persisting =>
            /\ closeCount = 1
            /\ runState = "returned"
            /\ DeduplicatedFrom(result, allStays)
            /\ \A k \in 1 .. Len(table) : \E i \in 1 .. Len(result) : result[i] = table[k])
    /\ [](runState = "threw" => ~Persisting)
    /\ [][Persisting => UNCHANGED <<upsertState, table>>]_vars

\* Two records of equal name and address were collected, the browser was
\* closed, and the one record left after deduplication was written.
C25_Witness ==
    /\ pc = "exited"
    /\ closeCount = 1
    /\ upsertState = "returned"
    /\ Len(allStays) = 2
    /\ Len(result) = 1
    /\ table = result

-----------------------------------------------------------------------------
(* Properties of retry for every attempt budget, under SpecRetry             *)

RetryOver == rState \in {"returned", "threw"}

AtLeastOne(n) == IF n >= 1 THEN n ELSE 1

\* C26 as stated: for every maxAttempts, 0 and negative values included,
\* retry invokes the operation at least once and at most max(1, maxAttempts)
\* times, and an error it throws is one thrown by one of those invocations.
C26_InvokedAtLeastOnce ==
    RetryOver =>
        /\ Len(rCalls) >= 1
        /\ Len(rCalls) <= AtLeastOne(rOpts.maxAttempts)
        /\ rState = "threw" => \E i \in 1 .. Len(rCalls) : rCalls[i] = rOutcome

-----------------------------------------------------------------------------
(* Properties of what dedupeStays drops, under SpecDedupe                    *)

InOutput(s) == \E k \in 1 .. Len(dOut) : dOut[k] = s

\* C28 as stated: dedupeStays drops a record that has a googleMapsUrl only if
\* an earlier record has the same canonical URL, or a lowercased name and a
\* lowercased address both equal to its own (a missing one taken as empty);
\* two records that differ in name or address and in canonical URL are never
\* merged.
C28_DropsOnlyDuplicates ==
    dDone =>
        \A i \in 1 .. Len(dIn) :
           (~HasNoUrl(dIn[i]) /\ ~InOutput(dIn[i])) =>
              \E j \in 1 .. i - 1 :
                 /\ ~HasNoUrl(dIn[j])
                 /\ \/ SameCanonicalUrl(dIn[j], dIn[i])
                    \/ SameNameAddress(dIn[j], dIn[i])

-----------------------------------------------------------------------------
(* Properties of the rate limiter, under SpecLimiter and SpecLimiterFair     *)

\* C23: for a limiter with maxPerWindow N >= 1 and window W, under every
\* interleaving of concurrent acquire() calls and clock advances, the grants
\* whose times lie inside an interval of length W are never more than N.
C23_AtMostNPerWindow ==
    rlMaxPerWindow >= 1 => Len(rlGrants) <= rlMaxPerWindow

\* With N = 2 and W = 2 three callers called acquire() within the same
\* window: two were granted and the third waits; the two grants are 2 ms
\* apart.
C23_Witness ==
    /\ rlMaxPerWindow = 2
    /\ rlWindowMs = 2
    /\ rlCalls = 3
    /\ rlGrants = <<2, 0>>
    /\ \E c \in Callers : rlState[c] = "waiting"

Rechecks(c) ==
    /\ rlState[c] = "waiting"
    /\ rlTimer[c] = 0
    /\ rlState'[c] = "granted" \/ rlTimer'[c] > 0

\* C27 as stated: for every limiter with maxPerWindow >= 0 and windowMs >= 0
\* every acquire() call eventually resolves, provided the clock keeps
\* advancing and timers fire.
C27_Original ==
    \A c \in Callers : (rlState[c] = "waiting") ~> (rlState[c] = "granted")

\* C27, amended: for maxPerWindow >= 1 and windowMs >= 0 every one of
\* finitely many acquire() calls eventually resolves, provided the clock
\* keeps advancing and timers fire; an acquire() that had to wait checks the
\* window again when its timer fires and is granted then exactly when fewer
\* than maxPerWindow grants remain inside the window.  With maxPerWindow = 0
\* no acquire() is ever granted.
C27_ResolvesWhenPositive ==
    /\ \A c \in Callers :
         (rlMaxPerWindow >= 1 /\ rlState[c] = "waiting") ~> (rlState[c] = "granted")
    /\ [][\A c \in Callers :
            Rechecks(c) => (rlState'[c] = "granted" <=> Len(rlGrants) < rlMaxPerWindow)]_vars
    /\ [](rlMaxPerWindow = 0 => \A c \in Callers : rlState[c] # "granted")

\* With N = 1 and W = 2 a caller that had to wait was granted.
C27_Witness ==
    /\ rlMaxPerWindow = 1
    /\ rlWindowMs = 2
    /\ \E c \in Callers : rlState[c] = "granted" /\ rlWaited[c]

=============================================================================
